---- MODULE Spec2Model ----
(***************************************************************************)
(* pyDefine: decoding of Python tracebacks and exceptions into             *)
(* beginner-friendly records (pydefine/core.py, pydefine/utils.py,         *)
(* pydefine/i18n.py and the catalog in mapping.py).                        *)
(*                                                                         *)
(* Representation.  A Python str is a sequence of atoms.  An atom is an    *)
(* indivisible fragment of text: one blank, one newline, one colon, a word *)
(* or a complete location marker  File "<path>", line <digits> .  No atom  *)
(* is a concatenation of other atoms, so two strings are equal exactly     *)
(* when their atom sequences are equal.  Python's None is the empty        *)
(* sequence and a present optional value v is <<v>>, so that "absent" and  *)
(* 0 or "" stay distinct.  Characters outside ASCII are written <U+XXXX>.  *)
(***************************************************************************)
EXTENDS Integers, Sequences, FiniteSets, TLC

VARIABLES arg, current_language, sys_stdout, call, outcome, overwritten,
          language_code, accepted

vars == <<arg, current_language, sys_stdout, call, outcome, overwritten,
          language_code, accepted>>

(* ------------------------------ bounds -------------------------------- *)

MaxLen == 4

MaxMsgLen == 2

MaxFrames == 2

MaxAppended == 1

MaxRawLen == 4

(* ------------------------------- atoms -------------------------------- *)

SP == " "

NL == "\n"

COLON == ":"

None == <<>>

Some(v) == <<v>>

Str(a) == <<a>>

Whitespace == {" ", "\n", "\r", "  ", "    "}

HUGE == "<4301 digits>"

CORE_FILE == "pydefine/core.py"

Marker(file, digits) == "File \"" \o file \o "\", line " \o digits

MARKERS ==
  { [file |-> "a.py", digits |-> "1"],
    [file |-> "b.py", digits |-> "0"],
    [file |-> "c.py", digits |-> HUGE],
    [file |-> "test.py", digits |-> "5"],
    [file |-> "test.py", digits |-> "2"],
    [file |-> "script.py", digits |-> "10"],
    [file |-> "<input>", digits |-> "1"],
    [file |-> "<input>", digits |-> "2"],
    [file |-> "custom_script.py", digits |-> "1"],
    [file |-> "custom_script.py", digits |-> "2"],
    [file |-> CORE_FILE, digits |-> "308"],
    [file |-> CORE_FILE, digits |-> "311"] }

MarkerAtoms == { Marker(m.file, m.digits) : m \in MARKERS }

MarkA == Marker("a.py", "1")

MarkB == Marker("b.py", "0")

MarkHuge == Marker("c.py", HUGE)

Alphabet == {SP, NL, COLON, "SyntaxError", "Foo", MarkA, MarkB, MarkHuge}

RECURSIVE SeqsUpTo(_, _)
SeqsUpTo(S, n) ==
  IF n = 0 THEN {<<>>}
  ELSE LET shorter == SeqsUpTo(S, n - 1)
       IN  shorter \cup { Append(s, a) : s \in {t \in shorter : Len(t) = n - 1}, a \in S }

(* --------------------------- outcomes of a call ------------------------ *)

Return(v) == [status |-> "return", value |-> v]

Raise(cls, msg) == [status |-> "raise", exc_type |-> cls, exc_msg |-> msg]

(* ---------------------- str methods and re.search ---------------------- *)

RECURSIVE lstrip(_)
lstrip(s) == IF s # <<>> /\ Head(s) \in Whitespace THEN lstrip(Tail(s)) ELSE s

RECURSIVE rstrip(_)
rstrip(s) ==
  IF s # <<>> /\ s[Len(s)] \in Whitespace THEN rstrip(SubSeq(s, 1, Len(s) - 1)) ELSE s

strip(s) == rstrip(lstrip(s))

find(s, sep) ==
  IF \E i \in 1..Len(s) : s[i] = sep
  THEN CHOOSE i \in 1..Len(s) : s[i] = sep /\ \A j \in 1..(i - 1) : s[j] # sep
  ELSE 0

\* s.split(sep): the pieces of s between its separators, one more than there
\* are separators
split(s, sep) ==
  LET at == { i \in DOMAIN s : s[i] = sep }
      nth(k) == CHOOSE i \in at : Cardinality({ j \in at : j < i }) = k - 1
      start(k) == IF k = 1 THEN 1 ELSE nth(k - 1) + 1
      stop(k) == IF k = Cardinality(at) + 1 THEN Len(s) ELSE nth(k) - 1
  IN  [k \in 1..(Cardinality(at) + 1) |-> SubSeq(s, start(k), stop(k))]

rfind(s, sep) ==
  IF \E i \in 1..Len(s) : s[i] = sep
  THEN CHOOSE i \in 1..Len(s) : s[i] = sep /\ \A j \in (i + 1)..Len(s) : s[j] # sep
  ELSE 0

split_last(s, sep) ==
  LET i == rfind(s, sep)
  IN  IF i = 0 THEN <<s>>
      ELSE <<SubSeq(s, 1, i - 1), SubSeq(s, i + 1, Len(s))>>

split_first(s, sep) ==
  LET i == find(s, sep)
  IN  IF i = 0 THEN <<s>>
      ELSE <<SubSeq(s, 1, i - 1), SubSeq(s, i + 1, Len(s))>>

re_search(line) ==
  IF \E i \in 1..Len(line) : line[i] \in MarkerAtoms
  THEN LET i == CHOOSE k \in 1..Len(line) :
                  line[k] \in MarkerAtoms /\ \A j \in 1..(k - 1) : line[j] \notin MarkerAtoms
           m == CHOOSE r \in MARKERS : Marker(r.file, r.digits) = line[i]
       IN  Some([group1 |-> m.file, group2 |-> m.digits])
  ELSE None

startswith_File(s) == s # <<>> /\ Head(s) \in MarkerAtoms

DIGITS ==
  ("0" :> 0) @@ ("1" :> 1) @@ ("2" :> 2) @@ ("5" :> 5) @@ ("10" :> 10)
  @@ ("308" :> 308) @@ ("311" :> 311)

INT_LIMIT_MESSAGE ==
  <<"Exceeds the limit (4300 digits) for integer string conversion", COLON, SP,
    "value has 4301 digits; use sys.set_int_max_str_digits() to increase the limit">>

int(digits) ==
  IF digits \in DOMAIN DIGITS THEN Return(DIGITS[digits])
  ELSE Raise("ValueError", INT_LIMIT_MESSAGE)

LOWER ==
  ("SyntaxError" :> "syntaxerror") @@ ("SYNTAXERROR" :> "syntaxerror")
  @@ ("NameError" :> "nameerror") @@ ("ZeroDivisionError" :> "zerodivisionerror")
  @@ ("Syntax" :> "syntax") @@ ("SYNTAX" :> "syntax") @@ ("Foo" :> "foo")
  @@ ("FILE" :> "file") @@ ("File" :> "file")
  @@ ("TotallyUnregisteredName" :> "totallyunregisteredname")

lower(a) == IF a \in DOMAIN LOWER THEN LOWER[a] ELSE a

(* ------------------------------ catalog ------------------------------- *)

EXCEPTION_MAP ==
  ("SyntaxError" :>
      [simple_explanation |-> <<"You wrote", " ", "Python", " ", "code", " that ", "doesn't follow", " ", "the language rules", ". ", "Python", " couldn't understand what you typed. ", "This is", " like writing a sentence with ", "wrong", " grammar <U+1F4DD>">>,
       fix_suggestion |-> <<"Check for missing colons (:), unmatched parentheses/brackets, or typos in keywords like 'if', 'for', 'def'">>,
       tags |-> <<"syntax", "grammar", "typo", "beginner">>, emoji |-> <<"<U+1F4DD>">>]) @@
  ("IndentationError" :>
      [simple_explanation |-> <<"Your ", "code", " has ", "wrong", " spacing at the beginning of a line. ", "Python", " needs consistent spaces or tabs to understand ", "code", " blocks. Think of it like paragraphs that need proper alignment <U+1F4CF>">>,
       fix_suggestion |-> <<"Make sure all lines in the same block have the same number of spaces (usually 4 spaces). Don't mix tabs and spaces">>,
       tags |-> <<"syntax", "indentation", "spacing", "whitespace">>, emoji |-> <<"<U+1F4CF>">>]) @@
  ("TabError" :>
      [simple_explanation |-> <<"You mixed tabs (Tab key) and spaces for indentation. ", "Python", " gets confused when you use both in the same ", "file", ". ", "It's like", " mixing two different measuring systems <U+1F500>">>,
       fix_suggestion |-> <<"Use only spaces (4 spaces per indent level) or only tabs, never mix them. Most editors can convert tabs to spaces">>,
       tags |-> <<"syntax", "indentation", "tabs", "whitespace">>, emoji |-> <<"<U+1F500>">>]) @@
  ("NameError" :>
      [simple_explanation |-> <<"You tried", " to use a ", "variable", " or ", "function", " name that ", "doesn't exist", " yet. ", "Python", " doesn't know what you're talking about. ", "It's like", " calling someone who isn't in the room <U+1F937>">>,
       fix_suggestion |-> <<"Check spelling, make sure you defined the variable first, or import the module that contains it">>,
       tags |-> <<"name", "variable", "undefined", "scope">>, emoji |-> <<"<U+1F937>">>]) @@
  ("UnboundLocalError" :>
      [simple_explanation |-> <<"You tried", " to use a ", "variable", " inside a ", "function", " before giving it a value. ", "Python", " knows you want a local ", "variable", " but you haven't set it yet. ", "It's like", " opening an empty box <U+1F4E6>">>,
       fix_suggestion |-> <<"Assign a value to the variable before using it, or use 'global' keyword if you meant to use an outside variable">>,
       tags |-> <<"name", "variable", "scope", "local">>, emoji |-> <<"<U+1F4E6>">>]) @@
  ("AttributeError" :>
      [simple_explanation |-> <<"You tried", " to access a property or method that ", "doesn't exist", " on an object. The thing you're working with ", "doesn't have", " that feature. ", "It's like", " trying to open a car door that isn't there <U+1F697>">>,
       fix_suggestion |-> <<"Check the correct attribute name using dir(object), or verify the object type is what you expect">>,
       tags |-> <<"attribute", "object", "method", "property">>, emoji |-> <<"<U+1F697>">>]) @@
  ("TypeError" :>
      [simple_explanation |-> <<"You tried", " to do something with ", "the wrong type", " of data. Like trying to add a number to a word - they don't mix. ", "Python", " needs compatible types to work together <U+1F522><U+2795><U+1F4DD>">>,
       fix_suggestion |-> <<"Convert data to the right type (e.g., int(), str(), list()), or check if you're using the correct operation">>,
       tags |-> <<"type", "conversion", "operation", "mismatch">>, emoji |-> <<"<U+1F522>">>]) @@
  ("ValueError" :>
      [simple_explanation |-> <<"The data type is ", "correct", " but the actual value doesn't make sense. Like trying to convert the word 'hello' into a number. The format or content is ", "wrong", " <U+1F3AF>">>,
       fix_suggestion |-> <<"Check if the input value is valid for what you're trying to do. Add validation or try/except to handle bad values">>,
       tags |-> <<"value", "invalid", "format", "conversion">>, emoji |-> <<"<U+1F3AF>">>]) @@
  ("KeyError" :>
      [simple_explanation |-> <<"You tried", " to get a value from ", "a dictionary", " using a key that ", "doesn't exist", ". ", "It's like", " looking for a word in ", "a dictionary", " that isn't there. The key you asked for is ", "missing", " <U+1F511>">>,
       fix_suggestion |-> <<"Use dict.get(key, default) instead of dict[key], or check if the key exists with 'key in dict' first">>,
       tags |-> <<"key", "dictionary", "lookup", "missing">>, emoji |-> <<"<U+1F511>">>]) @@
  ("IndexError" :>
      [simple_explanation |-> <<"You tried", " to access a position in ", "a list", " that ", "doesn't exist", ". Like trying to get the 10th item when there are only 5 items. The index is out of range <U+1F4CA>">>,
       fix_suggestion |-> <<"Check the length with len() before accessing, or use negative indices to count from the end">>,
       tags |-> <<"index", "list", "sequence", "out-of-bounds">>, emoji |-> <<"<U+1F4CA>">>]) @@
  ("ZeroDivisionError" :>
      [simple_explanation |-> <<"You tried", " to divide a number by zero, which is impossible in math. Division by zero breaks the universe's math rules. ", "Python", " can't calculate infinity <U+2797>">>,
       fix_suggestion |-> <<"Check if the divisor is zero before dividing, or add a condition to handle zero values">>,
       tags |-> <<"arithmetic", "division", "zero", "math">>, emoji |-> <<"<U+2797>">>]) @@
  ("OverflowError" :>
      [simple_explanation |-> <<"A number got ", "too big", " for ", "Python", " to handle in a calculation. You exceeded the maximum size for this type of number. ", "It's like", " filling a cup that's too small <U+1F30A>">>,
       fix_suggestion |-> <<"Use smaller numbers, break calculation into steps, or use Python's unlimited precision integers">>,
       tags |-> <<"arithmetic", "overflow", "large-number", "math">>, emoji |-> <<"<U+1F30A>">>]) @@
  ("FloatingPointError" :>
      [simple_explanation |-> <<"A decimal number calculation failed or produced an ", "invalid", " result. This happens with very precise math operations. Floating point math has limits <U+1F522>">>,
       fix_suggestion |-> <<"Use the decimal module for precise calculations, or check for special values like infinity or NaN">>,
       tags |-> <<"arithmetic", "float", "precision", "math">>, emoji |-> <<"<U+1F522>">>]) @@
  ("ArithmeticError" :>
      [simple_explanation |-> <<"A general math ", "error", " occurred during a calculation. ", "This is", " the parent class for all arithmetic problems. ", "Something went wrong", " with numbers <U+2795>">>,
       fix_suggestion |-> <<"Check the specific error type for more details. Validate input values before calculations">>,
       tags |-> <<"arithmetic", "math", "calculation", "general">>, emoji |-> <<"<U+2795>">>]) @@
  ("FileNotFoundError" :>
      [simple_explanation |-> <<"Python", " ", "couldn't find", " the ", "file", " you're trying to open or use. The ", "file", " ", "doesn't exist", " at the path you specified. ", "It's like", " looking for a book that isn't on the shelf <U+1F4C1>">>,
       fix_suggestion |-> <<"Check the file path spelling, verify the file exists, or create the file if it should exist">>,
       tags |-> <<"file", "path", "io", "missing">>, emoji |-> <<"<U+1F4C1>">>]) @@
  ("FileExistsError" :>
      [simple_explanation |-> <<"You tried", " to create ", "a file", " that already exists. ", "Python", " won't overwrite it without permission. The ", "file", "name is already taken <U+1F4C4>">>,
       fix_suggestion |-> <<"Choose a different filename, delete the old file first, or open the file in append/write mode">>,
       tags |-> <<"file", "exists", "io", "duplicate">>, emoji |-> <<"<U+1F4C4>">>]) @@
  ("PermissionError" :>
      [simple_explanation |-> <<"You don't have permission to access, read, or modify this ", "file", " or folder. The operating system blocked your request for security. Access denied <U+1F512>">>,
       fix_suggestion |-> <<"Run as administrator/sudo, check file permissions, or ask the owner to grant you access">>,
       tags |-> <<"file", "permission", "access", "security">>, emoji |-> <<"<U+1F512>">>]) @@
  ("IsADirectoryError" :>
      [simple_explanation |-> <<"You tried", " to open ", "a folder", " as if it were ", "a file", ". Folders and ", "file", "s need different operations. You can't read ", "a folder", " like a text ", "file", " <U+1F4C2>">>,
       fix_suggestion |-> <<"Use os.listdir() to read folder contents, or check if the path is a file before opening">>,
       tags |-> <<"file", "directory", "io", "type">>, emoji |-> <<"<U+1F4C2>">>]) @@
  ("NotADirectoryError" :>
      [simple_explanation |-> <<"You tried", " to use ", "a file", " as if it were ", "a folder", ". The path you gave points to ", "a file", ", not a directory. You can't list contents of ", "a file", " <U+1F4C4>">>,
       fix_suggestion |-> <<"Check if the path is a directory with os.path.isdir(), or use the correct path to the folder">>,
       tags |-> <<"file", "directory", "io", "type">>, emoji |-> <<"<U+1F4C4>">>]) @@
  ("IOError" :>
      [simple_explanation |-> <<"An input/output operation failed when working with ", "file", "s or streams. ", "Something went wrong", " reading or writing data. Data transfer had a problem <U+1F4BE>">>,
       fix_suggestion |-> <<"Check if the file is open, device is connected, or if there's enough disk space">>,
       tags |-> <<"io", "file", "stream", "read-write">>, emoji |-> <<"<U+1F4BE>">>]) @@
  ("OSError" :>
      [simple_explanation |-> <<"The operating system returned an ", "error", ". This could be ", "file", " issues, network problems, or system limits. ", "Something went wrong", " at the system level <U+1F5A5><U+FE0F>">>,
       fix_suggestion |-> <<"Check system resources, file permissions, network connection, or read the detailed error message for specifics">>,
       tags |-> <<"os", "system", "general", "file">>, emoji |-> <<"<U+1F5A5><U+FE0F>">>]) @@
  ("EOFError" :>
      [simple_explanation |-> <<"Python", " reached the end of ", "a file", " or input unexpectedly. The input() ", "function", " got closed without receiving data. No more data to read <U+1F4ED>">>,
       fix_suggestion |-> <<"Make sure there's input available, handle Ctrl+D/Ctrl+Z gracefully, or check if the file has content">>,
       tags |-> <<"io", "input", "eof", "stream">>, emoji |-> <<"<U+1F4ED>">>]) @@
  ("ImportError" :>
      [simple_explanation |-> <<"Python", " couldn't import a module you requested. The package might not be installed or the name is ", "wrong", ". Import failed <U+1F4E6>">>,
       fix_suggestion |-> <<"Install the package with pip install, check spelling, or verify the module exists in your environment">>,
       tags |-> <<"import", "module", "package", "missing">>, emoji |-> <<"<U+1F4E6>">>]) @@
  ("ModuleNotFoundError" :>
      [simple_explanation |-> <<"Python", " ", "can't find", " the module you're trying to import. The module ", "doesn't exist", " or isn't installed. Module is ", "missing", " <U+1F50D>">>,
       fix_suggestion |-> <<"Install with 'pip install module_name', check spelling, or add the module's directory to Python path">>,
       tags |-> <<"import", "module", "not-found", "pip">>, emoji |-> <<"<U+1F50D>">>]) @@
  ("AssertionError" :>
      [simple_explanation |-> <<"An assert statement failed - a condition you expected to be true was false. ", "This is", " a test that didn't pass. Your assumption was ", "wrong", " <U+270B>">>,
       fix_suggestion |-> <<"Check why the condition is false, fix the logic, or remove the assert if it's no longer needed">>,
       tags |-> <<"assertion", "test", "condition", "debug">>, emoji |-> <<"<U+270B>">>]) @@
  ("RuntimeError" :>
      [simple_explanation |-> <<"An ", "error", " happened while ", "the program", " was running that doesn't fit other categories. Something unexpected went ", "wrong", " during execution. General runtime problem <U+26A0><U+FE0F>">>,
       fix_suggestion |-> <<"Read the detailed error message for context. Debug the specific operation that failed">>,
       tags |-> <<"runtime", "general", "execution">>, emoji |-> <<"<U+26A0><U+FE0F>">>]) @@
  ("RecursionError" :>
      [simple_explanation |-> <<"A ", "function", " called itself too many times without stopping. You have infinite recursion that exceeded ", "Python", "'s limit. Stack overflow from deep recursion <U+1F501>">>,
       fix_suggestion |-> <<"Add a base case to stop recursion, use iteration instead, or increase recursion limit with sys.setrecursionlimit()">>,
       tags |-> <<"recursion", "stack", "infinite", "function">>, emoji |-> <<"<U+1F501>">>]) @@
  ("NotImplementedError" :>
      [simple_explanation |-> <<"A method or ", "function", " is defined but not actually ", "code", "d yet. The developer left it as a placeholder. Feature not implemented <U+1F6A7>">>,
       fix_suggestion |-> <<"Implement the method, use a different method, or wait for the developer to complete this feature">>,
       tags |-> <<"implementation", "abstract", "incomplete", "todo">>, emoji |-> <<"<U+1F6A7>">>]) @@
  ("MemoryError" :>
      [simple_explanation |-> <<"Python", " ran out of available memory (RAM). You're trying to store or process too much data. Not enough memory <U+1F9E0>">>,
       fix_suggestion |-> <<"Process data in smaller chunks, close unused objects, use generators instead of lists, or add more RAM">>,
       tags |-> <<"memory", "ram", "resource", "overflow">>, emoji |-> <<"<U+1F9E0>">>]) @@
  ("StopIteration" :>
      [simple_explanation |-> <<"An iterator ran out of items when you called next() on it. ", "This is", " normal - it means 'no more items left'. Iterator is exhausted <U+1F51A>">>,
       fix_suggestion |-> <<"This is usually caught automatically in loops. Use for-loops instead of manually calling next()">>,
       tags |-> <<"iterator", "loop", "exhausted", "normal">>, emoji |-> <<"<U+1F51A>">>]) @@
  ("StopAsyncIteration" :>
      [simple_explanation |-> <<"An async iterator ran out of items. Similar to StopIteration but for async/await ", "code", ". Async iterator finished <U+1F51A>">>,
       fix_suggestion |-> <<"This is normal behavior. Use 'async for' loops which handle this automatically">>,
       tags |-> <<"iterator", "async", "exhausted", "normal">>, emoji |-> <<"<U+1F51A>">>]) @@
  ("KeyboardInterrupt" :>
      [simple_explanation |-> <<"You pressed", " Ctrl+C to stop ", "the program", " manually. ", "This is", " intentional - you cancelled execution. ", "Use", "r interrupted <U+2328><U+FE0F>">>,
       fix_suggestion |-> <<"This is normal. If you want to catch it, use try/except KeyboardInterrupt to clean up before exiting">>,
       tags |-> <<"interrupt", "cancel", "ctrl-c", "user">>, emoji |-> <<"<U+2328><U+FE0F>">>]) @@
  ("SystemExit" :>
      [simple_explanation |-> <<"The program called sys.exit() to quit intentionally. ", "This is", " a clean way to end ", "the program", ". Intentional exit <U+1F6AA>">>,
       fix_suggestion |-> <<"This is normal. If catching it, don't prevent legitimate exits. Check the exit code for success/failure">>,
       tags |-> <<"exit", "quit", "system", "intentional">>, emoji |-> <<"<U+1F6AA>">>]) @@
  ("SystemError" :>
      [simple_explanation |-> <<"Python", "'s interpreter encountered an internal ", "error", ". ", "This is", " rare and usually a bug in ", "Python", " itself or a C extension. Internal ", "Python", " ", "error", " <U+1F40D>">>,
       fix_suggestion |-> <<"Update Python to the latest version, check if a C extension is buggy, or report this bug to Python developers">>,
       tags |-> <<"system", "internal", "interpreter", "rare">>, emoji |-> <<"<U+1F40D>">>]) @@
  ("GeneratorExit" :>
      [simple_explanation |-> <<"A generator was closed while it was still running. This happens when you call .close() on a generator. Generator was stopped early <U+23F9><U+FE0F>">>,
       fix_suggestion |-> <<"This is usually intentional. Handle cleanup in 'finally' blocks if needed">>,
       tags |-> <<"generator", "close", "cleanup", "normal">>, emoji |-> <<"<U+23F9><U+FE0F>">>]) @@
  ("UnicodeError" :>
      [simple_explanation |-> <<"A problem occurred with text encoding or decoding. ", "Python", " couldn't convert between text formats properly. Text encoding problem <U+1F524>">>,
       fix_suggestion |-> <<"Specify encoding explicitly (utf-8), handle errors parameter, or check source text encoding">>,
       tags |-> <<"unicode", "encoding", "text", "charset">>, emoji |-> <<"<U+1F524>">>]) @@
  ("UnicodeDecodeError" :>
      [simple_explanation |-> <<"Python", " couldn't de", "code", " bytes into text using the specified encoding. The byte sequence doesn't match the encoding you specified. Can't de", "code", " text <U+1F4E5>">>,
       fix_suggestion |-> <<"Use correct encoding (try utf-8), use errors='ignore' or 'replace', or detect encoding with chardet library">>,
       tags |-> <<"unicode", "decode", "encoding", "text">>, emoji |-> <<"<U+1F4E5>">>]) @@
  ("UnicodeEncodeError" :>
      [simple_explanation |-> <<"Python", " couldn't en", "code", " text into bytes using the specified encoding. The text contains characters that don't exist in the target encoding. Can't en", "code", " text <U+1F4E4>">>,
       fix_suggestion |-> <<"Use utf-8 encoding which supports all characters, or use errors='ignore'/'replace' to skip problem characters">>,
       tags |-> <<"unicode", "encode", "encoding", "text">>, emoji |-> <<"<U+1F4E4>">>]) @@
  ("UnicodeTranslateError" :>
      [simple_explanation |-> <<"Python", " couldn't translate characters during text processing. Character mapping or translation failed. Can't translate text <U+1F504>">>,
       fix_suggestion |-> <<"Check the translation table, use errors='ignore', or handle special characters separately">>,
       tags |-> <<"unicode", "translate", "mapping", "text">>, emoji |-> <<"<U+1F504>">>]) @@
  ("LookupError" :>
      [simple_explanation |-> <<"A general ", "error", " for failed lookups in sequences or mappings. Parent class of KeyError and IndexError. Lookup failed <U+1F50E>">>,
       fix_suggestion |-> <<"Check the specific error (KeyError or IndexError) for details. Validate keys/indices before accessing">>,
       tags |-> <<"lookup", "general", "key", "index">>, emoji |-> <<"<U+1F50E>">>]) @@
  ("ReferenceError" :>
      [simple_explanation |-> <<"A weak reference ", "tried to", " access an object that was already garbage collected. The object you referenced no longer exists. Object was deleted <U+1F5D1><U+FE0F>">>,
       fix_suggestion |-> <<"Check if weak reference is still alive before using, or use strong references if object must persist">>,
       tags |-> <<"reference", "weak", "garbage-collection", "memory">>, emoji |-> <<"<U+1F5D1><U+FE0F>">>]) @@
  ("BufferError" :>
      [simple_explanation |-> <<"An operation failed on a buffer object. Usually happens when trying to modify an object while it's being accessed. Buffer conflict <U+1F4E6>">>,
       fix_suggestion |-> <<"Release buffer locks, avoid modifying objects during buffer operations, or copy data before modifying">>,
       tags |-> <<"buffer", "memory", "conflict", "access">>, emoji |-> <<"<U+1F4E6>">>]) @@
  ("ConnectionError" :>
      [simple_explanation |-> <<"A network connection failed or was interrupted. Parent class for all connection-related ", "error", "s. Connection problem <U+1F310>">>,
       fix_suggestion |-> <<"Check network connection, verify server is running, check firewall settings, or retry the connection">>,
       tags |-> <<"connection", "network", "socket", "general">>, emoji |-> <<"<U+1F310>">>]) @@
  ("BrokenPipeError" :>
      [simple_explanation |-> <<"You tried", " to write to a pipe or socket that was closed on the other end. The receiving end disconnected unexpectedly. Pipe broken <U+1F4E1>">>,
       fix_suggestion |-> <<"Check if the other process is running, handle disconnections gracefully, or add retry logic">>,
       tags |-> <<"connection", "pipe", "socket", "disconnect">>, emoji |-> <<"<U+1F4E1>">>]) @@
  ("ConnectionAbortedError" :>
      [simple_explanation |-> <<"The connection was aborted by the software on your computer. Your side closed the connection. Connection aborted locally <U+274C>">>,
       fix_suggestion |-> <<"Check if your firewall blocked it, verify network settings, or check for software conflicts">>,
       tags |-> <<"connection", "abort", "network", "local">>, emoji |-> <<"<U+274C>">>]) @@
  ("ConnectionRefusedError" :>
      [simple_explanation |-> <<"The remote computer actively refused the connection. The server isn't accepting connections on that port. Connection refused by server <U+1F6AB>">>,
       fix_suggestion |-> <<"Verify server is running, check the port number, check firewall rules, or verify the address">>,
       tags |-> <<"connection", "refused", "server", "port">>, emoji |-> <<"<U+1F6AB>">>]) @@
  ("ConnectionResetError" :>
      [simple_explanation |-> <<"The connection was forcibly closed by the remote computer. The other side dropped the connection suddenly. Connection reset by peer <U+1F50C>">>,
       fix_suggestion |-> <<"Check server stability, add reconnection logic, verify network stability, or check for server crashes">>,
       tags |-> <<"connection", "reset", "network", "remote">>, emoji |-> <<"<U+1F50C>">>]) @@
  ("TimeoutError" :>
      [simple_explanation |-> <<"An operation took ", "too long", " and exceeded the time limit. The connection or operation timed out. Operation timed out <U+23F1><U+FE0F>">>,
       fix_suggestion |-> <<"Increase timeout value, check network speed, optimize slow operations, or check server response time">>,
       tags |-> <<"timeout", "slow", "network", "time-limit">>, emoji |-> <<"<U+23F1><U+FE0F>">>]) @@
  ("ChildProcessError" :>
      [simple_explanation |-> <<"An operation on a child process failed. ", "Something went wrong", " managing subprocess execution. Child process ", "error", " <U+1F476>">>,
       fix_suggestion |-> <<"Check if subprocess command is valid, verify subprocess permissions, or check if child process exited unexpectedly">>,
       tags |-> <<"subprocess", "process", "child", "execution">>, emoji |-> <<"<U+1F476>">>]) @@
  ("BlockingIOError" :>
      [simple_explanation |-> <<"An I/O operation would block but was set to non-blocking mode. The operation can't complete immediately. Would block in non-blocking mode <U+1F6A6>">>,
       fix_suggestion |-> <<"Use select/poll to wait for readiness, switch to blocking mode, or use async I/O">>,
       tags |-> <<"io", "blocking", "non-blocking", "socket">>, emoji |-> <<"<U+1F6A6>">>]) @@
  ("InterruptedError" :>
      [simple_explanation |-> <<"A system call was interrupted by a signal. The operation was stopped by the operating system. System call interrupted <U+1F4DE>">>,
       fix_suggestion |-> <<"Retry the operation, this is usually temporary. Python often handles this automatically">>,
       tags |-> <<"signal", "interrupt", "system-call", "temporary">>, emoji |-> <<"<U+1F4DE>">>]) @@
  ("ProcessLookupError" :>
      [simple_explanation |-> <<"A process you're trying to access ", "doesn't exist", ". The process ID you specified is ", "invalid", " or the process ended. Process not found <U+1F50D>">>,
       fix_suggestion |-> <<"Check if process is still running, verify process ID, or handle process termination">>,
       tags |-> <<"process", "pid", "not-found", "system">>, emoji |-> <<"<U+1F50D>">>]) @@
  ("Warning" :>
      [simple_explanation |-> <<"A warning message was issued but didn't stop ", "the program", ". ", "This is", " for messages about potential problems. Warning issued <U+26A0><U+FE0F>">>,
       fix_suggestion |-> <<"Read the warning message and fix the underlying issue. Warnings can become errors in future versions">>,
       tags |-> <<"warning", "notice", "potential-issue", "deprecation">>, emoji |-> <<"<U+26A0><U+FE0F>">>]) @@
  ("ExceptionGroup" :>
      [simple_explanation |-> <<"Multiple ", "exception", "s occurred at the same time. This groups several ", "error", "s together. Multiple ", "error", "s happened <U+1F3AF>">>,
       fix_suggestion |-> <<"Handle each exception in the group individually. Use except* syntax (Python 3.11+) to catch specific types">>,
       tags |-> <<"group", "multiple", "concurrent", "python311">>, emoji |-> <<"<U+1F3AF>">>]) @@
  ("BaseExceptionGroup" :>
      [simple_explanation |-> <<"Multiple base ", "exception", "s occurred simultaneously. Like ExceptionGroup but can include system exits and interrupts. Multiple base ", "error", "s <U+1F3AF>">>,
       fix_suggestion |-> <<"Use except* syntax to handle each exception type. Be careful with system exits in groups">>,
       tags |-> <<"group", "multiple", "base", "python311">>, emoji |-> <<"<U+1F3AF>">>]) @@
  ("EnvironmentError" :>
      [simple_explanation |-> <<"An environment-related ", "error", " (old alias for OSError). ", "This is", " deprecated - use OSError instead. Environment problem <U+1F30D>">>,
       fix_suggestion |-> <<"Catch OSError instead. This is kept for backward compatibility">>,
       tags |-> <<"environment", "deprecated", "os", "legacy">>, emoji |-> <<"<U+1F30D>">>]) @@
  ("WindowsError" :>
      [simple_explanation |-> <<"A Windows-specific system ", "error", " occurred. ", "This is", " an alias for OSError on Windows. Windows system ", "error", " <U+1FA9F>">>,
       fix_suggestion |-> <<"Check Windows-specific error code, verify system permissions, or check Windows documentation">>,
       tags |-> <<"windows", "os", "system", "platform">>, emoji |-> <<"<U+1FA9F>">>])

FALLBACK ==
      [simple_explanation |-> <<"An ", "error", " occurred that we don't have detailed info about yet. Something unexpected went ", "wrong", " in your ", "code", ". ", "Check", " the ", "error", " name for clues <U+2753>">>,
       fix_suggestion |-> <<"Read the full error message carefully, search online for the error name, or check the documentation for what you're trying to do">>,
       tags |-> <<"unknown", "general", "unhandled">>, emoji |-> <<"<U+2753>">>]

replacements ==
  <<<<"Python", "Python">>,
    <<"code", "code">>,
    <<"function", "function">>,
    <<"variable", "variable">>,
    <<"file", "file">>,
    <<"error", "error">>,
    <<"exception", "exception">>,
    <<"You tried", "Aapne koshish ki">>,
    <<"You wrote", "Aapne likha">>,
    <<"You pressed", "Aapne press kiya">>,
    <<"tried to", "koshish ki">>,
    <<"doesn't exist", "exist nahi karta">>,
    <<"doesn't follow", "follow nahi karta">>,
    <<"couldn't find", "nahi mil saka">>,
    <<"can't find", "nahi mil sakta">>,
    <<"doesn't have", "ke paas nahi hai">>,
    <<"the language rules", "language ke rules">>,
    <<"the wrong type", "galat type">>,
    <<"a dictionary", "ek dictionary">>,
    <<"a list", "ek list">>,
    <<"a file", "ek file">>,
    <<"a folder", "ek folder">>,
    <<"the program", "program">>,
    <<"the computer", "computer">>,
    <<"wrong", "galat">>,
    <<"correct", "sahi">>,
    <<"invalid", "invalid">>,
    <<"missing", "missing">>,
    <<"too big", "bahut bada">>,
    <<"too long", "bahut lamba">>,
    <<"It's like", "Yeh aisa hai jaise">>,
    <<"This is", "Yeh hai">>,
    <<"Something went wrong", "Kuch galat ho gaya">>,
    <<"Check", "Check karein">>,
    <<"Make sure", "Pakka karein">>,
    <<"Use", "Use karein">>,
    <<"Install", "Install karein">>>>

EXCEPTION_MAP_keys ==
  <<"SyntaxError", "IndentationError", "TabError", "NameError", "UnboundLocalError",
    "AttributeError", "TypeError", "ValueError", "KeyError", "IndexError", "ZeroDivisionError",
    "OverflowError", "FloatingPointError", "ArithmeticError", "FileNotFoundError", "FileExistsError",
    "PermissionError", "IsADirectoryError", "NotADirectoryError", "IOError", "OSError", "EOFError",
    "ImportError", "ModuleNotFoundError", "AssertionError", "RuntimeError", "RecursionError",
    "NotImplementedError", "MemoryError", "StopIteration", "StopAsyncIteration", "KeyboardInterrupt",
    "SystemExit", "SystemError", "GeneratorExit", "UnicodeError", "UnicodeDecodeError",
    "UnicodeEncodeError", "UnicodeTranslateError", "LookupError", "ReferenceError", "BufferError",
    "ConnectionError", "BrokenPipeError", "ConnectionAbortedError", "ConnectionRefusedError",
    "ConnectionResetError", "TimeoutError", "ChildProcessError", "BlockingIOError",
    "InterruptedError", "ProcessLookupError", "Warning", "ExceptionGroup", "BaseExceptionGroup",
    "EnvironmentError", "WindowsError">>

ORD ==
  ("SyntaxError" :> <<83, 121, 110, 116, 97, 120, 69, 114, 114, 111, 114>>) @@
  ("IndentationError" :> <<73, 110, 100, 101, 110, 116, 97, 116, 105, 111, 110, 69, 114, 114, 111, 114>>) @@
  ("TabError" :> <<84, 97, 98, 69, 114, 114, 111, 114>>) @@
  ("NameError" :> <<78, 97, 109, 101, 69, 114, 114, 111, 114>>) @@
  ("UnboundLocalError" :> <<85, 110, 98, 111, 117, 110, 100, 76, 111, 99, 97, 108, 69, 114, 114, 111, 114>>) @@
  ("AttributeError" :> <<65, 116, 116, 114, 105, 98, 117, 116, 101, 69, 114, 114, 111, 114>>) @@
  ("TypeError" :> <<84, 121, 112, 101, 69, 114, 114, 111, 114>>) @@
  ("ValueError" :> <<86, 97, 108, 117, 101, 69, 114, 114, 111, 114>>) @@
  ("KeyError" :> <<75, 101, 121, 69, 114, 114, 111, 114>>) @@
  ("IndexError" :> <<73, 110, 100, 101, 120, 69, 114, 114, 111, 114>>) @@
  ("ZeroDivisionError" :> <<90, 101, 114, 111, 68, 105, 118, 105, 115, 105, 111, 110, 69, 114, 114, 111, 114>>) @@
  ("OverflowError" :> <<79, 118, 101, 114, 102, 108, 111, 119, 69, 114, 114, 111, 114>>) @@
  ("FloatingPointError" :> <<70, 108, 111, 97, 116, 105, 110, 103, 80, 111, 105, 110, 116, 69, 114, 114, 111, 114>>) @@
  ("ArithmeticError" :> <<65, 114, 105, 116, 104, 109, 101, 116, 105, 99, 69, 114, 114, 111, 114>>) @@
  ("FileNotFoundError" :> <<70, 105, 108, 101, 78, 111, 116, 70, 111, 117, 110, 100, 69, 114, 114, 111, 114>>) @@
  ("FileExistsError" :> <<70, 105, 108, 101, 69, 120, 105, 115, 116, 115, 69, 114, 114, 111, 114>>) @@
  ("PermissionError" :> <<80, 101, 114, 109, 105, 115, 115, 105, 111, 110, 69, 114, 114, 111, 114>>) @@
  ("IsADirectoryError" :> <<73, 115, 65, 68, 105, 114, 101, 99, 116, 111, 114, 121, 69, 114, 114, 111, 114>>) @@
  ("NotADirectoryError" :> <<78, 111, 116, 65, 68, 105, 114, 101, 99, 116, 111, 114, 121, 69, 114, 114, 111, 114>>) @@
  ("IOError" :> <<73, 79, 69, 114, 114, 111, 114>>) @@
  ("OSError" :> <<79, 83, 69, 114, 114, 111, 114>>) @@
  ("EOFError" :> <<69, 79, 70, 69, 114, 114, 111, 114>>) @@
  ("ImportError" :> <<73, 109, 112, 111, 114, 116, 69, 114, 114, 111, 114>>) @@
  ("ModuleNotFoundError" :> <<77, 111, 100, 117, 108, 101, 78, 111, 116, 70, 111, 117, 110, 100, 69, 114, 114, 111, 114>>) @@
  ("AssertionError" :> <<65, 115, 115, 101, 114, 116, 105, 111, 110, 69, 114, 114, 111, 114>>) @@
  ("RuntimeError" :> <<82, 117, 110, 116, 105, 109, 101, 69, 114, 114, 111, 114>>) @@
  ("RecursionError" :> <<82, 101, 99, 117, 114, 115, 105, 111, 110, 69, 114, 114, 111, 114>>) @@
  ("NotImplementedError" :> <<78, 111, 116, 73, 109, 112, 108, 101, 109, 101, 110, 116, 101, 100, 69, 114, 114, 111, 114>>) @@
  ("MemoryError" :> <<77, 101, 109, 111, 114, 121, 69, 114, 114, 111, 114>>) @@
  ("StopIteration" :> <<83, 116, 111, 112, 73, 116, 101, 114, 97, 116, 105, 111, 110>>) @@
  ("StopAsyncIteration" :> <<83, 116, 111, 112, 65, 115, 121, 110, 99, 73, 116, 101, 114, 97, 116, 105, 111, 110>>) @@
  ("KeyboardInterrupt" :> <<75, 101, 121, 98, 111, 97, 114, 100, 73, 110, 116, 101, 114, 114, 117, 112, 116>>) @@
  ("SystemExit" :> <<83, 121, 115, 116, 101, 109, 69, 120, 105, 116>>) @@
  ("SystemError" :> <<83, 121, 115, 116, 101, 109, 69, 114, 114, 111, 114>>) @@
  ("GeneratorExit" :> <<71, 101, 110, 101, 114, 97, 116, 111, 114, 69, 120, 105, 116>>) @@
  ("UnicodeError" :> <<85, 110, 105, 99, 111, 100, 101, 69, 114, 114, 111, 114>>) @@
  ("UnicodeDecodeError" :> <<85, 110, 105, 99, 111, 100, 101, 68, 101, 99, 111, 100, 101, 69, 114, 114, 111, 114>>) @@
  ("UnicodeEncodeError" :> <<85, 110, 105, 99, 111, 100, 101, 69, 110, 99, 111, 100, 101, 69, 114, 114, 111, 114>>) @@
  ("UnicodeTranslateError" :> <<85, 110, 105, 99, 111, 100, 101, 84, 114, 97, 110, 115, 108, 97, 116, 101, 69, 114, 114, 111, 114>>) @@
  ("LookupError" :> <<76, 111, 111, 107, 117, 112, 69, 114, 114, 111, 114>>) @@
  ("ReferenceError" :> <<82, 101, 102, 101, 114, 101, 110, 99, 101, 69, 114, 114, 111, 114>>) @@
  ("BufferError" :> <<66, 117, 102, 102, 101, 114, 69, 114, 114, 111, 114>>) @@
  ("ConnectionError" :> <<67, 111, 110, 110, 101, 99, 116, 105, 111, 110, 69, 114, 114, 111, 114>>) @@
  ("BrokenPipeError" :> <<66, 114, 111, 107, 101, 110, 80, 105, 112, 101, 69, 114, 114, 111, 114>>) @@
  ("ConnectionAbortedError" :> <<67, 111, 110, 110, 101, 99, 116, 105, 111, 110, 65, 98, 111, 114, 116, 101, 100, 69, 114, 114, 111, 114>>) @@
  ("ConnectionRefusedError" :> <<67, 111, 110, 110, 101, 99, 116, 105, 111, 110, 82, 101, 102, 117, 115, 101, 100, 69, 114, 114, 111, 114>>) @@
  ("ConnectionResetError" :> <<67, 111, 110, 110, 101, 99, 116, 105, 111, 110, 82, 101, 115, 101, 116, 69, 114, 114, 111, 114>>) @@
  ("TimeoutError" :> <<84, 105, 109, 101, 111, 117, 116, 69, 114, 114, 111, 114>>) @@
  ("ChildProcessError" :> <<67, 104, 105, 108, 100, 80, 114, 111, 99, 101, 115, 115, 69, 114, 114, 111, 114>>) @@
  ("BlockingIOError" :> <<66, 108, 111, 99, 107, 105, 110, 103, 73, 79, 69, 114, 114, 111, 114>>) @@
  ("InterruptedError" :> <<73, 110, 116, 101, 114, 114, 117, 112, 116, 101, 100, 69, 114, 114, 111, 114>>) @@
  ("ProcessLookupError" :> <<80, 114, 111, 99, 101, 115, 115, 76, 111, 111, 107, 117, 112, 69, 114, 114, 111, 114>>) @@
  ("Warning" :> <<87, 97, 114, 110, 105, 110, 103>>) @@
  ("ExceptionGroup" :> <<69, 120, 99, 101, 112, 116, 105, 111, 110, 71, 114, 111, 117, 112>>) @@
  ("BaseExceptionGroup" :> <<66, 97, 115, 101, 69, 120, 99, 101, 112, 116, 105, 111, 110, 71, 114, 111, 117, 112>>) @@
  ("EnvironmentError" :> <<69, 110, 118, 105, 114, 111, 110, 109, 101, 110, 116, 69, 114, 114, 111, 114>>) @@
  ("WindowsError" :> <<87, 105, 110, 100, 111, 119, 115, 69, 114, 114, 111, 114>>)
\* The entry of the dictionary EXCEPTION_MAP as it is now: the one written in
\* the source, unless it was written to through a reference since.
exception_map(exc_name) ==
  IF exc_name \in DOMAIN overwritten THEN overwritten[exc_name] ELSE EXCEPTION_MAP[exc_name]

get_exception_info_casefold(exception_name) ==
  IF Len(exception_name) = 1
     /\ \E key \in DOMAIN EXCEPTION_MAP : lower(key) = lower(exception_name[1])
  THEN EXCEPTION_MAP[CHOOSE key \in DOMAIN EXCEPTION_MAP : lower(key) = lower(exception_name[1])]
  ELSE FALLBACK

get_exception_info_untagged(exception_name) ==
  IF Len(exception_name) = 1 /\ exception_name[1] \in DOMAIN EXCEPTION_MAP
  THEN [EXCEPTION_MAP[exception_name[1]] EXCEPT !.tags = <<>>]
  ELSE FALLBACK

get_exception_info(exception_name) ==
  IF Len(exception_name) = 1 /\ exception_name[1] \in DOMAIN EXCEPTION_MAP
  THEN exception_map(exception_name[1])
  ELSE FALLBACK

(* ------------------------- extract_error_info -------------------------- *)

EmptyInfo_zero ==
  [error_type |-> Str("UnknownError"), original_message |-> <<>>,
   line_number |-> Some(0), file_name |-> Some(""), frames |-> <<>>]

EmptyInfo ==
  [error_type |-> Str("UnknownError"), original_message |-> <<>>,
   line_number |-> None, file_name |-> None, frames |-> <<>>]

Summary(result, last_line) ==
  IF find(last_line, COLON) # 0
  THEN LET error_parts == split_first(last_line, COLON)
       IN  [result EXCEPT !.error_type = strip(error_parts[1]),
                          !.original_message =
                              IF Len(error_parts) > 1 THEN strip(error_parts[2]) ELSE <<>>]
  ELSE [result EXCEPT !.error_type = strip(last_line), !.original_message = <<>>]

RECURSIVE ScanLines(_, _, _)
ScanLines(lines, i, result) ==
  IF i > Len(lines) THEN Return(result)
  ELSE LET match == re_search(lines[i])
       IN  IF match = None THEN ScanLines(lines, i + 1, result)
           ELSE LET file_name == match[1].group1
                    line_number == int(match[1].group2)
                IN  IF line_number.status = "raise" THEN line_number
                    ELSE ScanLines(lines, i + 1,
                           [result EXCEPT
                              !.file_name = Some(file_name),
                              !.line_number = Some(line_number.value),
                              !.frames = Append(@, [file |-> file_name,
                                                    line |-> line_number.value,
                                                    text |-> strip(lines[i])])])

RECURSIVE ScanSyntaxError(_, _, _)
ScanSyntaxError(lines, i, result) ==
  IF i > Len(lines) THEN Return(result)
  ELSE LET match == re_search(lines[i])
       IN  IF startswith_File(strip(lines[i])) /\ match # None
           THEN LET line_number == int(match[1].group2)
                IN  IF line_number.status = "raise" THEN line_number
                    ELSE ScanSyntaxError(lines, i + 1,
                           [result EXCEPT !.file_name = Some(match[1].group1),
                                          !.line_number = Some(line_number.value)])
           ELSE ScanSyntaxError(lines, i + 1, result)

extract_error_info(traceback_text) ==
  IF traceback_text = <<>> THEN Return(EmptyInfo)
  ELSE LET lines == split(strip(traceback_text), NL)
           last_line == strip(lines[Len(lines)])
           scanned == ScanLines(lines, 1, Summary(EmptyInfo, last_line))
       IN  IF scanned.status = "raise" THEN scanned
           ELSE IF scanned.value.error_type = Str("SyntaxError")
                THEN ScanSyntaxError(lines, 1, scanned.value)
                ELSE scanned

(* -------------------------------- i18n --------------------------------- *)

SUPPORTED_LANGUAGES == {"en", "hi"}

LanguageCodes == {"en", "hi", "fr", "EN", ""}

\* sorted(pairs, key=lambda x: -len(x[0])): the pair at index i
\* goes to the place given by the number of pairs that come before it (a
\* longer key, or a key as long and earlier in the list)
SortedByLength(pairs) ==
  LET before(i) ==
        { j \in DOMAIN pairs :
            \/ Len(pairs[j][1]) > Len(pairs[i][1])
            \/ Len(pairs[j][1]) = Len(pairs[i][1]) /\ j < i }
      place == [i \in DOMAIN pairs |-> Cardinality(before(i)) + 1]
  IN  [p \in DOMAIN pairs |-> pairs[CHOOSE i \in DOMAIN pairs : place[i] = p]]

sorted_replacements == SortedByLength(replacements)

replace(text, english, hinglish) ==
  [i \in DOMAIN text |-> IF text[i] = english THEN hinglish ELSE text[i]]

\* the replacements of pairs applied one after the other, in their order:
\* those of the first half of the list, then (once that text is computed)
\* those of the second half
RECURSIVE ApplyReplacements(_, _)
RECURSIVE ApplyRest(_, _)
ApplyReplacements(translated, pairs) ==
  IF pairs = <<>> THEN translated
  ELSE IF Len(pairs) = 1 THEN replace(translated, pairs[1][1], pairs[1][2])
  ELSE ApplyRest(
         ApplyReplacements(translated, SubSeq(pairs, 1, Len(pairs) \div 2)),
         SubSeq(pairs, Len(pairs) \div 2 + 1, Len(pairs)))

ApplyRest(translated, pairs) ==
  IF Len(translated) >= 0 THEN ApplyReplacements(translated, pairs) ELSE translated

translate_to_hinglish(text) == ApplyReplacements(text, sorted_replacements)

translate_explanation(text, target_language) ==
  IF target_language = "en" THEN text
  ELSE IF target_language = "hi" THEN translate_to_hinglish(text)
  ELSE text

\* set_language accepting every code it is given
set_language_any(code) == code \in LanguageCodes

set_language(code) == code \in SUPPORTED_LANGUAGES

get_language == current_language

(* -------------------- format_output, tokenize_output ------------------- *)

Get(d, key, default) == IF key \in DOMAIN d THEN d[key] ELSE default

Truthy(opt, zero) == opt # None /\ opt[1] # zero

\* sep.join(items), joining the two halves of the list
RECURSIVE join(_, _)
join(sep, items) ==
  IF items = <<>> THEN <<>>
  ELSE IF Len(items) = 1 THEN Head(items)
  ELSE join(sep, SubSeq(items, 1, Len(items) \div 2))
       \o <<sep>>
       \o join(sep, SubSeq(items, Len(items) \div 2 + 1, Len(items)))

RULE == "======================================================================"

DASHES == "<U+2500> * 70"

UTILS_BRANDING == "Powered by pyDefine <U+25CF> Created by Yahya"

CORE_BRANDING == "Powered by pyDefine <U+201A><U+00F3><U+00E8> Created by Yahya"

UTILS_QUESTION == "<U+2753>"

CORE_QUESTION == "<U+201A><U+00F9><U+00EC>"

format_output(decoded_info) ==
  LET emoji == Get(decoded_info, "emoji", Str(UTILS_QUESTION))
      error_type == Get(decoded_info, "error_type", Str("UnknownError"))
      original_msg == Get(decoded_info, "original_message", <<>>)
      explanation == Get(decoded_info, "simple_explanation", Str("No explanation available."))
      fix_suggestion == Get(decoded_info, "fix_suggestion", Str("No suggestion available."))
      line_num == Get(decoded_info, "line_number", None)
      file_name == Get(decoded_info, "file_name", None)
      tags == Get(decoded_info, "tags", <<>>)
      branding == Get(decoded_info, "branding", Str(UTILS_BRANDING))
      header ==
        <<Str(RULE),
          IF original_msg # <<>>
          THEN emoji \o <<SP>> \o error_type \o <<COLON, SP>> \o original_msg
          ELSE emoji \o <<SP>> \o error_type,
          Str(RULE), <<>>,
          Str("<U+1F4D6> What happened:"), <<"   ">> \o explanation, <<>>,
          Str("<U+1F4A1> How to fix:"), <<"   ">> \o fix_suggestion, <<>> >>
      where ==
        IF Truthy(line_num, 0) \/ Truthy(file_name, "")
        THEN <<Str("<U+1F4CD> Where:")>>
             \o (IF Truthy(file_name, "") THEN << <<"   File: ", file_name[1]>> >> ELSE <<>>)
             \o (IF Truthy(line_num, 0) THEN << <<"   Line: ", ToString(line_num[1])>> >> ELSE <<>>)
             \o << <<>> >>
        ELSE <<>>
      taglines ==
        IF tags # <<>>
        THEN << <<"<U+1F3F7><U+FE0F>  Tags: ">> \o join(", ", [i \in DOMAIN tags |-> Str(tags[i])]),
                <<>> >>
        ELSE <<>>
      footer ==
        <<Str(DASHES), <<"<U+2728> ">> \o branding \o <<" <U+2728>">>, Str(RULE)>>
  IN  join(NL, header \o where \o taglines \o footer)

RichMarkers == {}

findall(explanation) == SelectSeq(explanation, LAMBDA seg : seg \in RichMarkers)

tokenize_output(decoded_info) ==
  LET emoji == Get(decoded_info, "emoji", Str(UTILS_QUESTION))
      error_type == Get(decoded_info, "error_type", Str("UnknownError"))
      original_msg == Get(decoded_info, "original_message", <<>>)
      explanation == Get(decoded_info, "simple_explanation", <<>>)
      fix_suggestion == Get(decoded_info, "fix_suggestion", <<>>)
      line_num == Get(decoded_info, "line_number", None)
      file_name == Get(decoded_info, "file_name", None)
      tags == Get(decoded_info, "tags", <<>>)
      branding == Get(decoded_info, "branding", Str(UTILS_BRANDING))
      Token(type, content) == [type |-> type, content |-> content]
      rich(type) == [i \in DOMAIN findall(explanation) |-> Token(type, Str(findall(explanation)[i]))]
  IN  <<Token("emoji", emoji), Token("error_type", error_type)>>
      \o (IF original_msg # <<>> THEN <<Token("original_message", original_msg)>> ELSE <<>>)
      \o (IF explanation # <<>>
          THEN <<Token("explanation", explanation)>> \o rich("image") \o rich("audio")
          ELSE <<>>)
      \o (IF fix_suggestion # <<>> THEN <<Token("fix_suggestion", fix_suggestion)>> ELSE <<>>)
      \o (IF Truthy(line_num, 0) THEN <<Token("line_number", Str(ToString(line_num[1])))>> ELSE <<>>)
      \o (IF Truthy(file_name, "") THEN <<Token("file_name", Str(file_name[1]))>> ELSE <<>>)
      \o (IF tags # <<>> THEN <<Token("tags", tags)>> ELSE <<>>)
      \o <<Token("branding", branding)>>

(* ----------------- list_all_exceptions, search by tag ------------------ *)

\* a < b for two str values given as their code points
RECURSIVE str_lt(_, _)
str_lt(a, b) ==
  IF b = <<>> THEN FALSE
  ELSE IF a = <<>> THEN TRUE
  ELSE IF Head(a) # Head(b) THEN Head(a) < Head(b)
  ELSE str_lt(Tail(a), Tail(b))

\* sorted(names): the name at index i goes to the place given by the number
\* of names that come before it (smaller, or equal and earlier in the list)
sorted(names) ==
  LET before(i) ==
        { j \in DOMAIN names :
            \/ str_lt(ORD[names[j]], ORD[names[i]])
            \/ names[j] = names[i] /\ j < i }
      place == [i \in DOMAIN names |-> Cardinality(before(i)) + 1]
  IN  [p \in DOMAIN names |-> names[CHOOSE i \in DOMAIN names : place[i] = p]]

list_all_exceptions_unsorted == EXCEPTION_MAP_keys

list_all_exceptions == sorted(EXCEPTION_MAP_keys)

str_lower(s) == [i \in DOMAIN s |-> lower(s[i])]

\* [t.lower() for t in exc_info.get("tags", [])], for each entry
lowered_tags ==
  [exc_name \in DOMAIN EXCEPTION_MAP |->
     { Str(lower(t)) : t \in { Get(EXCEPTION_MAP[exc_name], "tags", <<>>)[i] :
                                 i \in DOMAIN Get(EXCEPTION_MAP[exc_name], "tags", <<>>) } }]

tags_lower(exc_name) ==
  IF exc_name \in DOMAIN overwritten
  THEN { Str(lower(overwritten[exc_name].tags[i])) : i \in DOMAIN overwritten[exc_name].tags }
  ELSE lowered_tags[exc_name]

Matching(names, tag) == SelectSeq(names, LAMBDA exc_name : tag \in tags_lower(exc_name))

search_exceptions_by_tag_exact(tag) == sorted(Matching(EXCEPTION_MAP_keys, tag))

search_exceptions_by_tag(tag) == sorted(Matching(EXCEPTION_MAP_keys, str_lower(tag)))

TOTAL_EXCEPTIONS == Cardinality(DOMAIN EXCEPTION_MAP)

(* --------------------------- decode_traceback --------------------------- *)

isinstance_str(value) == value.kind = "str"

falsy_none_only(value) == value.kind = "NoneType"

falsy(value) ==
  \/ value.kind = "NoneType"
  \/ value.kind = "str" /\ value.s = <<>>
  \/ value.kind = "int" /\ value.n = 0

WithTranslation(result, lang) ==
  IF lang # "en"
  THEN result @@ [translated_explanation |->
                    translate_explanation(result.simple_explanation, lang)]
  ELSE result

WithFormattedOutput(result) == result @@ [formatted_output |-> format_output(result)]

WithTokens(result) == result @@ [tokens |-> tokenize_output(result)]

WithBranding(result) == result @@ [branding |-> Str(CORE_BRANDING)]

WithSuccessTranslation(result, lang) ==
  IF lang # "en"
  THEN [result EXCEPT !.success = TRUE]
       @@ [translated_explanation |-> translate_explanation(result.simple_explanation, lang)]
  ELSE result

Decorate_success(result, lang) ==
  WithBranding(WithTokens(WithFormattedOutput(WithSuccessTranslation(result, lang))))

WithOverwrite(result, lang) ==
  IF lang # "en"
  THEN [result EXCEPT !.simple_explanation =
                        translate_explanation(result.simple_explanation, lang)]
  ELSE result

Decorate_overwrite(result, lang) ==
  WithBranding(WithTokens(WithFormattedOutput(WithOverwrite(result, lang))))

Decorate(result, lang) ==
  WithBranding(WithTokens(WithFormattedOutput(WithTranslation(result, lang))))

Decoded_falsy_line(error_info, exception_data, lang) ==
  Return(Decorate(
    [error_type |-> error_info.error_type,
     original_message |-> error_info.original_message,
     simple_explanation |-> exception_data.simple_explanation,
     fix_suggestion |-> exception_data.fix_suggestion,
     line_number |-> IF Truthy(Get(error_info, "line_number", None), 0)
                     THEN error_info.line_number ELSE None,
     file_name |-> Get(error_info, "file_name", None),
     tags |-> Get(exception_data, "tags", <<>>),
     emoji |-> Get(exception_data, "emoji", Str(CORE_QUESTION)),
     success |-> FALSE], lang))

Decoded(error_info, exception_data, lang) ==
  Return(Decorate(
    [error_type |-> error_info.error_type,
     original_message |-> error_info.original_message,
     simple_explanation |-> exception_data.simple_explanation,
     fix_suggestion |-> exception_data.fix_suggestion,
     line_number |-> Get(error_info, "line_number", None),
     file_name |-> Get(error_info, "file_name", None),
     tags |-> Get(exception_data, "tags", <<>>),
     emoji |-> Get(exception_data, "emoji", Str(CORE_QUESTION)),
     success |-> FALSE], lang))

DecodeParsed(error_info, lang) ==
  IF error_info.status = "raise" THEN error_info
  ELSE Decoded(error_info.value, get_exception_info(error_info.value.error_type), lang)

decode_traceback(traceback_text, lang) ==
  IF falsy(traceback_text) \/ ~isinstance_str(traceback_text)
  THEN Return([error_type |-> Str("InvalidInput"),
               original_message |-> Str("No traceback provided"),
               simple_explanation |-> Str("No error information was provided to decode."),
               fix_suggestion |-> Str("Pass a valid traceback string to decode_traceback()"),
               line_number |-> None,
               file_name |-> None,
               tags |-> <<"invalid-input">>,
               emoji |-> Str(CORE_QUESTION),
               success |-> FALSE,
               branding |-> Str(CORE_BRANDING)])
  ELSE DecodeParsed(extract_error_info(traceback_text.s), lang)

(* --------------------------- decode_exception --------------------------- *)

isinstance_BaseException(e) == e.kind = "exception"

STR_FAILED == <<"__str__ failed">>

str(e) == IF e.str_fails THEN Raise("RuntimeError", STR_FAILED) ELSE Return(e.msg)

outermost(tb) == Head(tb)

RECURSIVE innermost(_)
innermost(tb) == IF Len(tb) > 1 THEN innermost(Tail(tb)) ELSE Head(tb)

DecodedException(e, original_message, exception_data, lang) ==
  IF original_message.status = "raise" THEN original_message
  ELSE Return(Decorate(
         [error_type |-> Str(e.cls),
          original_message |-> original_message.value,
          simple_explanation |-> exception_data.simple_explanation,
          fix_suggestion |-> exception_data.fix_suggestion,
          line_number |-> IF e.tb # <<>> THEN Some(innermost(e.tb).line) ELSE None,
          file_name |-> IF e.tb # <<>> THEN Some(innermost(e.tb).file) ELSE None,
          tags |-> Get(exception_data, "tags", <<>>),
          emoji |-> Get(exception_data, "emoji", Str(CORE_QUESTION)),
          success |-> FALSE], lang))

decode_exception_unchecked(e, lang) ==
  IF ~isinstance_BaseException(e)
  THEN Raise("AttributeError", <<"object has no attribute '__traceback__'">>)
  ELSE DecodedException(e, str(e), get_exception_info(Str(e.cls)), lang)

decode_exception(e, lang) ==
  IF ~isinstance_BaseException(e)
  THEN Return([error_type |-> Str("InvalidInput"),
               original_message |-> Str("Not a valid exception object"),
               simple_explanation |-> Str("The input is not a valid Python exception."),
               fix_suggestion |-> Str("Pass an exception object caught in try/except block"),
               line_number |-> None,
               file_name |-> None,
               tags |-> <<"invalid-input">>,
               emoji |-> Str(CORE_QUESTION),
               success |-> FALSE,
               branding |-> Str(CORE_BRANDING)])
  ELSE DecodedException(e, str(e), get_exception_info(Str(e.cls)), lang)

(* ------------------------------- safe_run ------------------------------- *)

Exception(cls, is_exception, msg, str_fails, tb) ==
  [kind |-> "exception", cls |-> cls, is_exception |-> is_exception, msg |-> msg,
   str_fails |-> str_fails, tb |-> tb]

Frame(file, line) == [file |-> file, line |-> line]

compile(code) ==
  IF code.compiles THEN None
  ELSE Some(Exception("SyntaxError", TRUE, Str("invalid syntax"), FALSE,
                      <<Frame(CORE_FILE, 308)>>))

exec(code) ==
  IF code.raises = None THEN [printed |-> code.prints, raised |-> None]
  ELSE LET r == code.raises[1]
       IN  [printed |-> code.prints,
            raised |-> Some(Exception(r.cls, r.is_exception, r.msg, r.str_fails,
                                      <<Frame(CORE_FILE, 311), Frame(code.filename, r.line)>>))]

FrameLines(frame, source_line) ==
  IF frame.file = CORE_FILE
  THEN <<"  ", Marker(frame.file, ToString(frame.line)), ", in safe_run", NL,
         "    ", source_line, NL>>
  ELSE <<"  ", Marker(frame.file, ToString(frame.line)), ", in <module>", NL>>

format_exception(e, filename) ==
  LET header == <<"Traceback (most recent call last)", COLON, NL>>
      summary ==
        IF e.str_fails THEN <<e.cls, COLON, SP, "<exception str() failed>", NL>>
        ELSE IF e.msg = <<>> THEN <<e.cls, NL>>
        ELSE <<e.cls, COLON, SP>> \o e.msg \o <<NL>>
  IN  IF e.cls = "SyntaxError" /\ Len(e.tb) = 1
      THEN header
           \o FrameLines(e.tb[1], "compiled_code = compile(code, filename, 'exec')")
           \o <<"  ", Marker(filename, "1"), NL, "    ", "<source line>", NL,
                "    ", "^^^^^", NL>>
           \o summary
      ELSE header
           \o FrameLines(e.tb[1], "exec(compiled_code, globals_dict, locals_dict)")
           \o FrameLines(e.tb[2], "")
           \o summary

Failed(decoded, captured_output) ==
  IF decoded.status = "raise" THEN decoded
  ELSE Return([k \in DOMAIN decoded.value \cup {"success", "output"} |->
                 IF k = "success" THEN FALSE
                 ELSE IF k = "output" THEN captured_output
                 ELSE decoded.value[k]])

Handle(e, code, captured_output, lang) ==
  Failed(IF e.is_exception
         THEN decode_traceback([kind |-> "str", s |-> format_exception(e, code.filename)], lang)
         ELSE decode_exception(e, lang),
         captured_output)

Succeeded(code, printed) ==
  Return([success |-> TRUE,
          result |-> code.locals_result,
          output |-> printed,
          message |-> Str("Code executed successfully"),
          branding |-> Str(CORE_BRANDING)])

Ran(code, run, lang) ==
  IF run.raised = None THEN Succeeded(code, run.printed)
  ELSE Handle(run.raised[1], code, run.printed, lang)

Compiled(code, compile_error, lang) ==
  IF compile_error # None THEN Handle(compile_error[1], code, <<>>, lang)
  ELSE Ran(code, exec(code), lang)

\* safe_run without the restoring assignment of its except branches
Captured_unrestored(old_stdout, result) ==
  [stdout |-> IF result.status = "return" /\ result.value.success THEN old_stdout
              ELSE "captured_output",
   outcome |-> result]

Captured(old_stdout, result) == [stdout |-> old_stdout, outcome |-> result]

safe_run(code, lang, stdout) ==
  IF code.kind # "code" /\ ~isinstance_str(code)
  THEN [stdout |-> stdout,
        outcome |-> Return([success |-> FALSE,
                            error_type |-> Str("InvalidInput"),
                            original_message |-> Str("Code must be a string"),
                            simple_explanation |-> Str("The code input is not a valid string."),
                            fix_suggestion |-> Str("Pass a string containing Python code"),
                            tags |-> <<"invalid-input">>,
                            emoji |-> Str(CORE_QUESTION),
                            branding |-> Str(CORE_BRANDING)])]
  ELSE IF code.kind = "str" /\ strip(code.s) = <<>>
  THEN [stdout |-> stdout,
        outcome |-> Return([success |-> TRUE,
                            result |-> None,
                            output |-> <<>>,
                            message |-> Str("No code to execute"),
                            branding |-> Str(CORE_BRANDING)])]
  ELSE Captured(stdout, Compiled(code, compile(code), lang))

(* ------------------------- decode_traceback_file ------------------------ *)

FOLDER_EMOJI == "<U+F8FF><U+00FC><U+00EC><U+00C5>"

open_read(filepath) ==
  IF filepath.kind # "path"
  THEN Raise("TypeError", <<"expected str, bytes or os.PathLike object, not NoneType">>)
  ELSE IF ~filepath.exists
  THEN Raise("FileNotFoundError",
             <<"[Errno 2] No such file or directory", COLON, SP, "'", filepath.name, "'">>)
  ELSE IF filepath.error # None
  THEN Raise(filepath.error[1], <<"cannot read ", filepath.name>>)
  ELSE Return(filepath.content)

FileResult_untried(filepath, decoded) == decoded

FileResult(filepath, decoded) ==
  IF decoded.status = "return" THEN decoded
  ELSE IF decoded.exc_type = "FileNotFoundError"
  THEN Return([success |-> FALSE,
               error_type |-> Str("FileNotFoundError"),
               original_message |-> <<"File not found: ", filepath.name>>,
               simple_explanation |-> Str("The traceback file you specified doesn't exist."),
               fix_suggestion |-> <<"Check if the file path '", filepath.name, "' is correct">>,
               tags |-> <<"file", "not-found">>,
               emoji |-> Str(FOLDER_EMOJI),
               branding |-> Str(CORE_BRANDING)])
  ELSE Return([success |-> FALSE,
               error_type |-> Str(decoded.exc_type),
               original_message |-> decoded.exc_msg,
               simple_explanation |-> <<"Could not read the file: ">> \o decoded.exc_msg,
               fix_suggestion |-> Str("Check file permissions and format"),
               tags |-> <<"file", "read-error">>,
               emoji |-> Str(FOLDER_EMOJI),
               branding |-> Str(CORE_BRANDING)])

ReadAndDecode(traceback_text, lang) ==
  IF traceback_text.status = "raise" THEN traceback_text
  ELSE decode_traceback([kind |-> "str", s |-> traceback_text.value], lang)

decode_traceback_file(filepath, lang) ==
  FileResult(filepath, ReadAndDecode(open_read(filepath), lang))
(* ------------------------- clean_traceback_text ------------------------- *)

\* clean_traceback_text works on characters, so its argument is a sequence of
\* single characters: ESC (0x1B), CR, newline, blank and one character of
\* each class of the pattern of strip_ansi_codes.
ESC == "<ESC>"

CR == "\r"

\* [@-Z\\-_]: the second character of a two-character escape
Fe == {"A"}

\* [0-?]: parameter characters
ParameterBytes == {"0"}

\* [ -/]: intermediate characters
IntermediateBytes == {SP}

\* [@-~]: the final character of a sequence opened by ESC [
FinalBytes == {"A", "[", "m"}

RawAlphabet == {ESC, CR, NL, SP, "A", "[", "0", "m"}

\* the first index from i on whose character is not in class (Len + 1 if none)
SkipWhile(text, i, class) ==
  CHOOSE j \in i..(Len(text) + 1) :
    /\ j = Len(text) + 1 \/ text[j] \notin class
    /\ \A k \in i..(j - 1) : text[k] \in class

AfterIntermediates(text, i) ==
  SkipWhile(text, SkipWhile(text, i, ParameterBytes), IntermediateBytes)

\* the length of the match of \x1B(?:[@-Z\\-_]|\[[0-?]*[ -/]*[@-~]) that
\* starts at index i, 0 when there is none; the three classes are disjoint,
\* so the greedy runs are the only way to match
ansi_escape(text, i) ==
  IF text[i] # ESC \/ i = Len(text) THEN 0
  ELSE IF text[i + 1] \in Fe THEN 2
  ELSE IF text[i + 1] # "[" THEN 0
  ELSE IF /\ AfterIntermediates(text, i + 2) <= Len(text)
          /\ text[AfterIntermediates(text, i + 2)] \in FinalBytes
  THEN AfterIntermediates(text, i + 2) - i + 1
  ELSE 0

\* the characters of text at the indices of keep, in their order
Kept(text, keep) ==
  [p \in 1..Cardinality(keep) |->
     text[CHOOSE i \in keep : Cardinality({ j \in keep : j <= i }) = p]]

\* ansi_escape.sub('', text): one pass from left to right; a match holds no
\* ESC after its first character, so matches never overlap and every match
\* of the text is removed
strip_ansi_codes(text) ==
  Kept(text, { k \in DOMAIN text :
                 ~ \E i \in 1..k : ansi_escape(text, i) > 0 /\ k < i + ansi_escape(text, i) })

\* text.replace('\r\n', '\n').replace('\r', '\n')
normalize_line_endings(text) ==
  LET crlf == Kept(text, { i \in DOMAIN text :
                             ~(text[i] = CR /\ i < Len(text) /\ text[i + 1] = NL) })
  IN  [i \in DOMAIN crlf |-> IF crlf[i] = CR THEN NL ELSE crlf[i]]

\* the loop over lines: a blank line that follows a blank line is skipped
RECURSIVE CleanedLines(_, _, _)
CleanedLines(lines, prev_blank, cleaned_lines) ==
  IF lines = <<>> THEN cleaned_lines
  ELSE IF strip(Head(lines)) = <<>> /\ prev_blank
  THEN CleanedLines(Tail(lines), prev_blank, cleaned_lines)
  ELSE CleanedLines(Tail(lines), strip(Head(lines)) = <<>>, Append(cleaned_lines, Head(lines)))

Normalized(cleaned) == strip(join(NL, CleanedLines(split(cleaned, NL), FALSE, <<>>)))

clean_traceback_text(traceback_text) ==
  Normalized(normalize_line_endings(strip_ansi_codes(traceback_text)))


(* ------------------------------- inputs -------------------------------- *)

Names ==
  {"SyntaxError", "syntaxerror", "SYNTAXERROR", "Syntax", "NameError", "nameerror",
   "ZeroDivisionError", "TotallyUnregisteredName", "Foo"}

Examples ==
  { <<"Traceback (most recent call last)", COLON, NL,
      "  ", Marker("test.py", "5"), ", in <module>", NL,
      "    ", "print(x)", NL,
      "NameError", COLON, SP, "name 'x' is not defined">>,
    <<"Traceback (most recent call last)", COLON, NL,
      "  ", Marker("test.py", "5"), ", in <module>", NL,
      "    ", "some_function()", NL,
      "  ", Marker("test.py", "2"), ", in some_function", NL,
      "    ", "return 1/0", NL,
      "ZeroDivisionError", COLON, SP, "division by zero">>,
    <<"  ", Marker("script.py", "10"), NL,
      "    ", "if True", NL,
      "           ^", NL,
      "SyntaxError", COLON, SP, "invalid syntax">>,
    <<MarkA, NL, "x", SP, MarkB, NL, "SyntaxError", COLON, SP, "bad">>,
    <<MarkA, NL, "x", SP, MarkB, NL, "ValueError", COLON, SP, "bad">>,
    <<MarkA, NL, "SyntaxError", COLON, SP, MarkB>>,
    <<"Foo", COLON, SP, "bar", COLON, SP, "baz">>,
    <<MarkA, NL, "Foo", COLON, SP, "x", NL, SP, NL>> }

Tags == {"syntax", "SYNTAX", "Syntax", "file", "FILE", "File", "beginner", "nonexistent_tag_xyz"}

StrArgs ==
  { [kind |-> "str", s |-> t] :
      t \in SeqsUpTo(Alphabet, MaxLen) \cup { Str(n) : n \in Names } \cup Examples
            \cup { Str(n) : n \in DOMAIN EXCEPTION_MAP } \cup { Str(n) : n \in Tags } }

OtherArgs == { [kind |-> "NoneType"], [kind |-> "int", n |-> 0], [kind |-> "int", n |-> 123] }

MsgAlphabet == {NL, COLON, "Foo", MarkA, MarkHuge}

Messages == SeqsUpTo(MsgAlphabet, MaxMsgLen)

Tracebacks == SeqsUpTo({Frame("a.py", 1), Frame("b.py", 0)}, MaxFrames)

ExceptionClasses ==
  { [cls |-> "ZeroDivisionError", is_exception |-> TRUE],
    [cls |-> "Foo", is_exception |-> TRUE],
    [cls |-> "SystemExit", is_exception |-> FALSE] }

ExceptionArgs ==
  { Exception(c.cls, c.is_exception, m, f, tb) :
      c \in ExceptionClasses, m \in Messages, f \in BOOLEAN, tb \in Tracebacks }

Filenames == {"<input>", "custom_script.py"}

Raises ==
  { [cls |-> c.cls, is_exception |-> c.is_exception, msg |-> m, str_fails |-> f, line |-> n] :
      c \in ExceptionClasses, m \in Messages, f \in BOOLEAN, n \in {1, 2} }

CodeArgs ==
  { [kind |-> "code", filename |-> fn, compiles |-> FALSE, prints |-> <<>>,
     raises |-> None, locals_result |-> None] : fn \in Filenames }
  \cup
  { [kind |-> "code", filename |-> fn, compiles |-> TRUE, prints |-> p,
     raises |-> None, locals_result |-> r] :
      fn \in Filenames, p \in {<<>>, <<"15", NL>>}, r \in {None, Some(15)} }
  \cup
  { [kind |-> "code", filename |-> fn, compiles |-> TRUE, prints |-> p,
     raises |-> Some(r), locals_result |-> None] :
      fn \in Filenames, p \in {<<>>, <<"15", NL>>}, r \in Raises }

PathArgs ==
  { [kind |-> "path", name |-> "error.log", exists |-> FALSE, error |-> None,
     content |-> <<>>] }
  \cup
  { [kind |-> "path", name |-> "error.log", exists |-> TRUE, error |-> Some(c),
     content |-> <<>>] : c \in {"PermissionError", "IsADirectoryError", "UnicodeDecodeError"} }
  \cup
  { [kind |-> "path", name |-> "error.log", exists |-> TRUE, error |-> None,
     content |-> t] : t \in SeqsUpTo(Alphabet, MaxMsgLen) }

\* texts given character by character, for clean_traceback_text
RawExamples ==
  { <<ESC, "[", "0", "m", "m", ESC, "[", "0", "m", NL, "m">>,
    <<"m", NL, NL, NL, "m">>,
    <<"m", CR, NL, CR, NL, CR, "m">>,
    <<"m", NL, SP, NL, NL, SP, NL, "m">>,
    <<ESC, "[", ESC, "[", "0", "m", "0", "m", "m">>,
    <<SP, NL, NL, "m", SP, NL>> }

RawArgs ==
  { [kind |-> "chars", s |-> t] : t \in SeqsUpTo(RawAlphabet, MaxRawLen) \cup RawExamples }

Args == StrArgs \cup OtherArgs \cup ExceptionArgs \cup CodeArgs \cup PathArgs \cup RawArgs

(* ------------------------------- actions ------------------------------- *)

\* language_code is the argument of the set_language call that call names
\* (None for any other call); accepted is the argument of the last
\* set_language call that returned True, "en" before any did.
Init ==
  /\ arg \in Args
  /\ current_language = "en"
  /\ sys_stdout = "original"
  /\ call = "none"
  /\ outcome = [status |-> "none"]
  /\ overwritten = <<>>
  /\ language_code = None
  /\ accepted = "en"

GetExceptionInfo ==
  /\ arg.kind = "str"
  /\ call' = "get_exception_info"
  /\ outcome' = Return(get_exception_info(arg.s))
  /\ language_code' = None
  /\ UNCHANGED <<arg, current_language, sys_stdout, overwritten, accepted>>

ExtractErrorInfo ==
  /\ arg.kind = "str"
  /\ call' = "extract_error_info"
  /\ outcome' = extract_error_info(arg.s)
  /\ language_code' = None
  /\ UNCHANGED <<arg, current_language, sys_stdout, overwritten, accepted>>

DecodeTraceback ==
  /\ arg.kind \in {"str", "NoneType", "int"}
  /\ call' = "decode_traceback"
  /\ outcome' = decode_traceback(arg, current_language)
  /\ language_code' = None
  /\ UNCHANGED <<arg, current_language, sys_stdout, overwritten, accepted>>

DecodeException ==
  /\ arg.kind \in {"exception", "str", "NoneType", "int"}
  /\ call' = "decode_exception"
  /\ outcome' = decode_exception(arg, current_language)
  /\ language_code' = None
  /\ UNCHANGED <<arg, current_language, sys_stdout, overwritten, accepted>>

SafeRun ==
  /\ \/ arg.kind \in {"code", "NoneType", "int"}
     \/ arg.kind = "str" /\ strip(arg.s) = <<>>
  /\ call' = "safe_run"
  /\ \E done \in {safe_run(arg, current_language, sys_stdout)} :
       /\ outcome' = done.outcome
       /\ sys_stdout' = done.stdout
  /\ language_code' = None
  /\ UNCHANGED <<arg, current_language, overwritten, accepted>>

DecodeTracebackFile ==
  /\ arg.kind \in {"path", "NoneType"}
  /\ call' = "decode_traceback_file"
  /\ outcome' = decode_traceback_file(arg, current_language)
  /\ language_code' = None
  /\ UNCHANGED <<arg, current_language, sys_stdout, overwritten, accepted>>

ListAllExceptions ==
  /\ arg.kind = "NoneType"
  /\ call' = "list_all_exceptions"
  /\ outcome' = Return(list_all_exceptions)
  /\ language_code' = None
  /\ UNCHANGED <<arg, current_language, sys_stdout, overwritten, accepted>>

SearchExceptionsByTag ==
  /\ arg.kind = "str"
  /\ call' = "search_exceptions_by_tag"
  /\ outcome' = Return(search_exceptions_by_tag(arg.s))
  /\ language_code' = None
  /\ UNCHANGED <<arg, current_language, sys_stdout, overwritten, accepted>>

CleanTracebackText ==
  /\ arg.kind = "chars"
  /\ call' = "clean_traceback_text"
  /\ outcome' = Return(clean_traceback_text(arg.s))
  /\ language_code' = None
  /\ UNCHANGED <<arg, current_language, sys_stdout, overwritten, accepted>>

SetLanguage ==
  \E code \in LanguageCodes :
    /\ call' = "set_language"
    /\ language_code' = Some(code)
    /\ current_language' = IF set_language(code) THEN code ELSE current_language
    /\ outcome' = Return(set_language(code))
    /\ accepted' = IF set_language(code) THEN code ELSE accepted
    /\ UNCHANGED <<arg, sys_stdout, overwritten>>

(* ------------- the caller, holding a value it was returned ------------- *)

\* The key of the entry of EXCEPTION_MAP that the value last returned shares
\* objects with: a lookup of a registered name returns the entry itself, and
\* a decoded result of a registered class holds the entry's tags list.
Shared ==
  IF outcome.status # "return" THEN None
  ELSE IF call = "get_exception_info"
  THEN IF Len(arg.s) = 1 /\ arg.s[1] \in DOMAIN EXCEPTION_MAP THEN Some(arg.s[1]) ELSE None
  ELSE IF /\ call \in {"decode_traceback", "decode_exception", "safe_run"}
          /\ "error_type" \in DOMAIN outcome.value
          /\ Len(outcome.value.error_type) = 1
          /\ outcome.value.error_type[1] \in DOMAIN EXCEPTION_MAP
  THEN Some(outcome.value.error_type[1])
  ELSE None

\* The returned value after its tags list (the one object that the result,
\* its tags token and the catalog entry hold) has become tags.
WithTags(value, tags) ==
  [k \in DOMAIN value |->
     IF k = "tags" THEN tags
     ELSE IF k = "tokens"
     THEN [i \in DOMAIN value.tokens |->
             IF value.tokens[i].type = "tags"
             THEN [value.tokens[i] EXCEPT !.content = tags]
             ELSE value.tokens[i]]
     ELSE value[k]]

\* result["tags"].append("mine")
AppendTag ==
  /\ Shared # None
  /\ Len(exception_map(Shared[1]).tags) < Len(EXCEPTION_MAP[Shared[1]].tags) + MaxAppended
  /\ overwritten' =
       (Shared[1] :> [exception_map(Shared[1]) EXCEPT !.tags = Append(@, "mine")])
       @@ overwritten
  /\ outcome' = Return(WithTags(outcome.value, Append(exception_map(Shared[1]).tags, "mine")))
  /\ UNCHANGED <<arg, current_language, sys_stdout, call, language_code, accepted>>

\* info["emoji"] = "changed", on the record a lookup returned
SetEmoji ==
  /\ call = "get_exception_info"
  /\ Shared # None
  /\ overwritten' =
       (Shared[1] :> [exception_map(Shared[1]) EXCEPT !.emoji = Str("changed")])
       @@ overwritten
  /\ outcome' = Return([outcome.value EXCEPT !.emoji = Str("changed")])
  /\ UNCHANGED <<arg, current_language, sys_stdout, call, language_code, accepted>>

Next ==
  \/ GetExceptionInfo
  \/ ExtractErrorInfo
  \/ DecodeTraceback
  \/ DecodeException
  \/ SafeRun
  \/ DecodeTracebackFile
  \/ ListAllExceptions
  \/ SearchExceptionsByTag
  \/ CleanTracebackText
  \/ SetLanguage

Spec == Init /\ [][Next]_vars

NextCaller ==
  \/ Next
  \/ AppendTag
  \/ SetEmoji

SpecCaller == Init /\ [][NextCaller]_vars

(* =============================== claims ================================ *)

Returned(name) == call = name /\ outcome.status = "return"

Range(f) == { f[i] : i \in DOMAIN f }

IsText == arg.kind = "str"

NonBlankAt(text) == { i \in DOMAIN text : text[i] \notin Whitespace }

Max(S) == CHOOSE m \in S : \A x \in S : x <= m

Min(S) == CHOOSE m \in S : \A x \in S : m <= x

\* The last line of the text (lines are separated by "\n") that holds anything
\* but white space, without its leading and trailing white space.
SummaryLine(text) ==
  LET last == Max(NonBlankAt(text))
      before == { i \in 1..last : text[i] = NL }
      start == IF before = {} THEN 1 ELSE Max(before) + 1
      first == Min({ i \in NonBlankAt(text) : i >= start })
  IN  SubSeq(text, first, last)

Trimmed(s) ==
  IF NonBlankAt(s) = {} THEN <<>> ELSE SubSeq(s, Min(NonBlankAt(s)), Max(NonBlankAt(s)))

ColonsAt(line) == { i \in DOMAIN line : line[i] = COLON }

\* The location markers of the text, in order of occurrence.
MarkersAt(text) == { i \in DOMAIN text : text[i] \in MarkerAtoms }

MarkerFile(atom) == (CHOOSE m \in MARKERS : Marker(m.file, m.digits) = atom).file

MarkerLine(atom) == DIGITS[(CHOOSE m \in MARKERS : Marker(m.file, m.digits) = atom).digits]

(* C1: get_exception_info is total; a name that is exactly a catalog key     *)
(* gets that key's record, every other name (a case variant or a part of a  *)
(* key included) gets the fallback record, whose tags contain "unknown".    *)
C1_LookupIsExact ==
  call = "get_exception_info" =>
    /\ outcome.status = "return"
    /\ \A key \in DOMAIN EXCEPTION_MAP :
         arg.s = Str(key) => outcome.value = EXCEPTION_MAP[key]
    /\ (\A key \in DOMAIN EXCEPTION_MAP : arg.s # Str(key)) =>
         /\ "unknown" \in Range(outcome.value.tags)
         /\ outcome.value \notin Range(EXCEPTION_MAP)
         /\ outcome.value.simple_explanation = FALLBACK.simple_explanation
         /\ outcome.value.emoji = Str(UTILS_QUESTION)

C1_Witness ==
  /\ Returned("get_exception_info")
  /\ arg.s = Str("syntaxerror")
  /\ "unknown" \in Range(outcome.value.tags)

(* C2: for every text given to decode_traceback, the reported file_name and  *)
(* line_number are those of the last location marker occurring in the       *)
(* text, whatever the summary class name is (SyntaxError included).          *)
C2_LastMarkerWins ==
  (Returned("decode_traceback") /\ IsText /\ MarkersAt(arg.s) # {}) =>
    LET last == arg.s[Max(MarkersAt(arg.s))]
    IN  /\ outcome.value.file_name = Some(MarkerFile(last))
        /\ outcome.value.line_number = Some(MarkerLine(last))

(* C3: extract_error_info reads the last non-blank line as the summary: with *)
(* a colon, error_type is the trimmed text before the first colon and        *)
(* original_message the trimmed rest, later colons kept; without a colon,    *)
(* error_type is the whole trimmed line and original_message is empty.       *)
C3_SummarySplit ==
  (Returned("extract_error_info") /\ NonBlankAt(arg.s) # {}) =>
    LET line == SummaryLine(arg.s)
    IN  IF ColonsAt(line) # {}
        THEN LET c == Min(ColonsAt(line))
             IN  /\ outcome.value.error_type = Trimmed(SubSeq(line, 1, c - 1))
                 /\ outcome.value.original_message = Trimmed(SubSeq(line, c + 1, Len(line)))
        ELSE /\ outcome.value.error_type = line
             /\ outcome.value.original_message = <<>>

C3_Witness ==
  /\ Returned("extract_error_info")
  /\ arg.s = <<"Foo", COLON, SP, "bar", COLON, SP, "baz">>
  /\ outcome.value.error_type = Str("Foo")
  /\ outcome.value.original_message = <<"bar", COLON, SP, "baz">>

(* C4: decode_traceback("") and decode_traceback(None) both return, without  *)
(* raising, a result with success = False and the error_type "InvalidInput". *)
C4_NoInputSentinel ==
  (call = "decode_traceback" /\ (arg.kind = "NoneType" \/ (IsText /\ arg.s = <<>>))) =>
    /\ outcome.status = "return"
    /\ outcome.value.success = FALSE
    /\ outcome.value.error_type = Str("InvalidInput")

C4_Witness ==
  /\ Returned("decode_traceback")
  /\ IsText /\ arg.s = <<>>
  /\ outcome.value.error_type = Str("InvalidInput")

(* C5 as stated: extract_error_info on empty text reports the same sentinel  *)
(* class name as decode_traceback reports for empty input, with an empty     *)
(* message, no line number, no file name and no frames.                      *)
C5_SameSentinel ==
  (call = "extract_error_info" /\ arg.s = <<>>) =>
    /\ outcome.status = "return"
    /\ outcome.value.error_type =
         decode_traceback([kind |-> "str", s |-> <<>>], current_language).value.error_type
    /\ outcome.value.original_message = <<>>
    /\ outcome.value.line_number = None
    /\ outcome.value.file_name = None
    /\ outcome.value.frames = <<>>

(* C5 amended: extract_error_info on empty text reports the error_type       *)
(* "UnknownError", which is not the "InvalidInput" that decode_traceback     *)
(* reports for empty input, with an empty message, no line number, no file   *)
(* name and no frames.                                                       *)
C5_EmptyTextRecord ==
  (call = "extract_error_info" /\ arg.s = <<>>) =>
    /\ outcome.status = "return"
    /\ outcome.value.error_type = Str("UnknownError")
    /\ outcome.value.error_type #
         decode_traceback([kind |-> "str", s |-> <<>>], current_language).value.error_type
    /\ outcome.value.original_message = <<>>
    /\ outcome.value.line_number = None
    /\ outcome.value.file_name = None
    /\ outcome.value.frames = <<>>

C5_Witness ==
  /\ Returned("extract_error_info")
  /\ arg.s = <<>>
  /\ outcome.value.error_type = Str("UnknownError")

(* C6: decode_traceback, decode_exception and decode_traceback_file never    *)
(* raise: for every input they return a result record.                       *)
C6_NeverRaises ==
  call \in {"decode_traceback", "decode_exception", "decode_traceback_file"} =>
    outcome.status = "return"

(* C7: every result returned by decode_traceback, decode_exception and       *)
(* decode_traceback_file has success = False, in every language setting.     *)
C7_SuccessIsFalse ==
  (\/ Returned("decode_traceback")
   \/ Returned("decode_exception")
   \/ Returned("decode_traceback_file")) =>
    /\ "success" \in DOMAIN outcome.value
    /\ outcome.value.success = FALSE

C7_Witness ==
  /\ Returned("decode_exception")
  /\ arg.kind = "exception"
  /\ current_language = "hi"
  /\ "translated_explanation" \in DOMAIN outcome.value
  /\ outcome.value.success = FALSE

NoErrorOccurred ==
  \/ IsText
  \/ arg.kind = "code" /\ arg.compiles /\ arg.raises = None

(* C8: safe_run is the only operation that returns success = True; it does   *)
(* so exactly when no error occurred (blank code, or code that ran to its    *)
(* end without raising); whenever the executed code raises, safe_run         *)
(* returns a decoded result with success = False.                            *)
C8_SuccessOnlyWithoutError ==
  /\ (\/ Returned("decode_traceback")
      \/ Returned("decode_exception")
      \/ Returned("decode_traceback_file")) =>
       ~("success" \in DOMAIN outcome.value /\ outcome.value.success)
  /\ (\/ Returned("get_exception_info")
      \/ Returned("extract_error_info")) => "success" \notin DOMAIN outcome.value
  /\ call = "safe_run" =>
       /\ (outcome.status = "return" /\ outcome.value.success) <=> NoErrorOccurred
       /\ (arg.kind = "code" /\ (~arg.compiles \/ arg.raises # None)) =>
            /\ outcome.status = "return"
            /\ outcome.value.success = FALSE
            /\ "error_type" \in DOMAIN outcome.value

C10_FramesInResult ==
  (Returned("decode_traceback") /\ IsText /\ MarkersAt(arg.s) # {}) =>
    /\ "frames" \in DOMAIN outcome.value
    /\ Len(outcome.value.frames) >= 1

MarkerDigits(atom) == (CHOOSE m \in MARKERS : Marker(m.file, m.digits) = atom).digits

\* The markers of the text as the frames a full scan would give, in order.
RECURSIVE AllMarkers(_)
AllMarkers(text) ==
  IF text = <<>> THEN <<>>
  ELSE IF Head(text) \in MarkerAtoms
  THEN <<[file |-> MarkerFile(Head(text)), line |-> MarkerDigits(Head(text))]>>
       \o AllMarkers(Tail(text))
  ELSE AllMarkers(Tail(text))

FrameLocations(frames) ==
  [i \in DOMAIN frames |-> [file |-> frames[i].file, line |-> ToString(frames[i].line)]]

(* C11: the frames returned by extract_error_info are the full ordered list  *)
(* of the location markers of the text: one frame, with the marker's file    *)
(* and line, for each occurrence of a marker, in order of occurrence.        *)
C11_FramesAreAllMarkers ==
  Returned("extract_error_info") =>
    FrameLocations(outcome.value.frames) = AllMarkers(arg.s)

(* C12: for a text without any location marker, extract_error_info and       *)
(* decode_traceback return line_number and file_name unset (None, which is   *)
(* neither 0 nor the empty string); for a text whose markers all carry line  *)
(* number 0, line_number is 0, which is distinct from unset.                 *)
C12_AbsentIsNoneZeroIsZero ==
  ((Returned("extract_error_info") \/ Returned("decode_traceback")) /\ IsText) =>
    /\ MarkersAt(arg.s) = {} =>
         /\ outcome.value.line_number = None
         /\ outcome.value.file_name = None
         /\ outcome.value.line_number # Some(0)
         /\ outcome.value.file_name # Some("")
    /\ (MarkersAt(arg.s) # {} /\ \A i \in MarkersAt(arg.s) : MarkerDigits(arg.s[i]) = "0") =>
         /\ outcome.value.line_number = Some(0)
         /\ outcome.value.line_number # None
         /\ outcome.value.file_name = Some("b.py")

C12_Witness ==
  /\ Returned("decode_traceback")
  /\ IsText
  /\ arg.s = <<MarkB, NL, "Foo">>
  /\ outcome.value.line_number = Some(0)
  /\ outcome.value.file_name = Some("b.py")

(* C13: decode_traceback_file returns, and never raises, when the file       *)
(* cannot be read: for a path that does not exist the result has success =   *)
(* False, the error_type "FileNotFoundError" and the tag "not-found"; for    *)
(* any other error of open/read it has success = False, the tag              *)
(* "read-error" and the class name of that error as error_type.              *)
C13_FileErrorsAreResults ==
  (call = "decode_traceback_file" /\ arg.kind = "path") =>
    /\ ~arg.exists =>
         /\ outcome.status = "return"
         /\ outcome.value.success = FALSE
         /\ outcome.value.error_type = Str("FileNotFoundError")
         /\ outcome.value.tags = <<"file", "not-found">>
    /\ (arg.exists /\ arg.error # None) =>
         /\ outcome.status = "return"
         /\ outcome.value.success = FALSE
         /\ outcome.value.error_type = Str(arg.error[1])
         /\ outcome.value.error_type # Str("FileNotFoundError")
         /\ outcome.value.tags = <<"file", "read-error">>

C13_Witness ==
  /\ Returned("decode_traceback_file")
  /\ arg.kind = "path"
  /\ arg.exists
  /\ arg.error = Some("PermissionError")
  /\ outcome.value.error_type = Str("PermissionError")
  /\ outcome.value.success = FALSE

(* C14: for an exception object e whose str(e) succeeds, decode_exception    *)
(* returns (the walk over the traceback chain ends) a result whose           *)
(* error_type is the class name of e and whose original_message is str(e);   *)
(* line_number and file_name are those of the last entry of the tb_next      *)
(* chain of e, and both are None when e has no traceback.                    *)
C14_InnermostEntry ==
  (call = "decode_exception" /\ arg.kind = "exception" /\ ~arg.str_fails) =>
    /\ outcome.status = "return"
    /\ outcome.value.error_type = Str(arg.cls)
    /\ outcome.value.original_message = arg.msg
    /\ arg.tb = <<>> =>
         /\ outcome.value.line_number = None
         /\ outcome.value.file_name = None
    /\ arg.tb # <<>> =>
         /\ outcome.value.line_number = Some(arg.tb[Len(arg.tb)].line)
         /\ outcome.value.file_name = Some(arg.tb[Len(arg.tb)].file)

C14_Witness ==
  /\ Returned("decode_exception")
  /\ arg.kind = "exception"
  /\ arg.tb = <<Frame("a.py", 1), Frame("b.py", 0)>>
  /\ arg.msg = <<"Foo", NL>>
  /\ outcome.value.file_name = Some("b.py")
  /\ outcome.value.line_number = Some(0)

(* C15: decode_exception on a value that is not an exception object, and     *)
(* safe_run on a code argument that is not a string, return a result with    *)
(* error_type "InvalidInput", success = False and the tag "invalid-input";   *)
(* nothing is executed: the result carries no output and no result value,    *)
(* and the standard output stream is the one it was.                         *)
C15_WrongShapeIsData ==
  (\/ call = "decode_exception" /\ arg.kind \in {"str", "NoneType", "int"}
   \/ call = "safe_run" /\ arg.kind \in {"NoneType", "int"}) =>
    /\ outcome.status = "return"
    /\ outcome.value.error_type = Str("InvalidInput")
    /\ outcome.value.success = FALSE
    /\ "invalid-input" \in Range(outcome.value.tags)
    /\ "output" \notin DOMAIN outcome.value
    /\ "result" \notin DOMAIN outcome.value
    /\ sys_stdout = "original"

C15_Witness ==
  /\ Returned("safe_run")
  /\ arg.kind = "int"
  /\ outcome.value.error_type = Str("InvalidInput")
  /\ outcome.value.tags = <<"invalid-input">>

RaisingCode == arg.kind = "code" /\ (~arg.compiles \/ arg.raises # None)

RaisedClass == IF ~arg.compiles THEN "SyntaxError" ELSE arg.raises[1].cls

(* C16: for every code whose compilation or execution raises an exception of *)
(* class C, the result safe_run returns has success = False and error_type   *)
(* equal to the name of C, whatever the message of the exception is (empty   *)
(* and multi-line messages included).                                        *)
C16_ErrorTypeIsRaisedClass ==
  (Returned("safe_run") /\ RaisingCode) =>
    /\ outcome.value.success = FALSE
    /\ outcome.value.error_type = Str(RaisedClass)

(* C17: when code run by safe_run(code, filename=F) raises, the file_name of *)
(* the returned result is F, the name the caller passed, and never the path  *)
(* of the library's own source file (the outer frame of the traceback).      *)
C17_FileNameIsCallersName ==
  (Returned("safe_run") /\ RaisingCode) =>
    /\ outcome.value.file_name = Some(arg.filename)
    /\ outcome.value.file_name # Some(CORE_FILE)

\* Strictly ascending in the order of str: sorted and without duplicates.
Ascending(names) ==
  \A i \in 1..(Len(names) - 1) : str_lt(ORD[names[i]], ORD[names[i + 1]])

SameIgnoringCase(a, b) == str_lower(a) = str_lower(b)

TaggedWith(tag) ==
  { c \in DOMAIN EXCEPTION_MAP :
      \E t \in Range(EXCEPTION_MAP[c].tags) : SameIgnoringCase(Str(t), tag) }

(* C18: search_exceptions_by_tag(tag) returns, in ascending order and        *)
(* without duplicates, exactly the registered class names one of whose tags  *)
(* equals tag when letter case is ignored; tags that differ only in letter   *)
(* case give equal results; a tag no entry carries gives the empty list.     *)
C18_SearchByTag ==
  call = "search_exceptions_by_tag" =>
    /\ outcome.status = "return"
    /\ Ascending(outcome.value)
    /\ Range(outcome.value) = TaggedWith(arg.s)
    /\ \A other \in StrArgs :
         SameIgnoringCase(other.s, arg.s) =>
           search_exceptions_by_tag(other.s) = outcome.value
    /\ TaggedWith(arg.s) = {} => outcome.value = <<>>

C18_Witness ==
  /\ Returned("search_exceptions_by_tag")
  /\ arg.s = Str("SYNTAX")
  /\ outcome.value = <<"IndentationError", "SyntaxError", "TabError">>

(* C19: list_all_exceptions() returns every registered class name exactly    *)
(* once, in ascending order; its length is the number of catalog entries,    *)
(* TOTAL_EXCEPTIONS.                                                         *)
C19_ListAll ==
  call = "list_all_exceptions" =>
    /\ outcome.status = "return"
    /\ Range(outcome.value) = DOMAIN EXCEPTION_MAP
    /\ Ascending(outcome.value)
    /\ Len(outcome.value) = TOTAL_EXCEPTIONS
    /\ Len(outcome.value) = Cardinality(DOMAIN EXCEPTION_MAP)

C19_Witness ==
  /\ Returned("list_all_exceptions")
  /\ Len(outcome.value) = 57
  /\ outcome.value[1] = "ArithmeticError"
  /\ outcome.value[57] = "ZeroDivisionError"

NonEmptyStr(s) == \E i \in DOMAIN s : s[i] # ""

NonEmptyRecord(info) ==
  /\ NonEmptyStr(info.simple_explanation)
  /\ NonEmptyStr(info.fix_suggestion)
  /\ Len(info.tags) >= 1
  /\ NonEmptyStr(info.emoji)

(* C20: for every registered class name c, the catalog record of c, which    *)
(* is what get_exception_info(c) returns, has a non-empty                    *)
(* simple_explanation, a non-empty fix_suggestion, at least one tag and a    *)
(* non-empty emoji.                                                          *)
C20_RecordsAreComplete ==
  /\ \A c \in DOMAIN EXCEPTION_MAP : NonEmptyRecord(EXCEPTION_MAP[c])
  /\ (call = "get_exception_info" /\ \E c \in DOMAIN EXCEPTION_MAP : arg.s = Str(c)) =>
       /\ outcome.status = "return"
       /\ NonEmptyRecord(outcome.value)

C20_Witness ==
  /\ Returned("get_exception_info")
  /\ arg.s = Str("KeyboardInterrupt")
  /\ outcome.value = EXCEPTION_MAP["KeyboardInterrupt"]
  /\ NonEmptyRecord(outcome.value)

(* C21: TOTAL_EXCEPTIONS equals the number of entries of EXCEPTION_MAP, and  *)
(* the catalog holds at least 80 entries: the list list_all_exceptions()     *)
(* returns has TOTAL_EXCEPTIONS names, and that number is at least 80.       *)
C21_AtLeast80Entries ==
  Returned("list_all_exceptions") =>
    /\ TOTAL_EXCEPTIONS = Cardinality(DOMAIN EXCEPTION_MAP)
    /\ Len(outcome.value) = TOTAL_EXCEPTIONS
    /\ TOTAL_EXCEPTIONS >= 80

(* C22: the catalog is never mutated: after any sequence of calls, and after *)
(* the caller modifies a record or a tags list it received from a lookup or  *)
(* in a decoded result, every entry of EXCEPTION_MAP is what it was at the   *)
(* start and a lookup returns the original record contents.                  *)
C22_CatalogNeverMutated ==
  \A c \in DOMAIN EXCEPTION_MAP :
    /\ exception_map(c) = EXCEPTION_MAP[c]
    /\ get_exception_info(Str(c)) = EXCEPTION_MAP[c]

(* C23: set_language(code) returns True and makes code the current language  *)
(* when code is a supported language, and returns False leaving the current  *)
(* language unchanged otherwise; so get_language() is always a key of        *)
(* SUPPORTED_LANGUAGES and equals the argument of the most recent call that  *)
(* returned True, or "en" if none did.                                       *)
C23_SetLanguage ==
  /\ [](/\ get_language \in SUPPORTED_LANGUAGES
        /\ get_language = accepted
        /\ Returned("set_language") =>
             /\ outcome.value = (language_code[1] \in SUPPORTED_LANGUAGES)
             /\ outcome.value => get_language = language_code[1])
  /\ [][call' = "set_language" /\ outcome'.value = FALSE =>
          current_language' = current_language]_vars

\* set_language("fr") has returned False after set_language("hi") had
\* returned True
C23_Witness ==
  /\ Returned("set_language")
  /\ language_code = Some("fr")
  /\ outcome.value = FALSE
  /\ get_language = "hi"

(* C24: when set_language is called with an unsupported code English is      *)
(* used: after that call, whatever came before it, get_language() is "en"    *)
(* and the results decoded next carry no translated_explanation.             *)
C24_UnsupportedMeansEnglish ==
  /\ [](Returned("set_language") /\ outcome.value = FALSE => get_language = "en")
  /\ [][/\ call = "set_language" /\ outcome.value = FALSE
         /\ call' \in {"decode_traceback", "decode_exception", "safe_run"}
         /\ outcome'.status = "return"
         => "translated_explanation" \notin DOMAIN outcome'.value]_vars

ResultFields ==
  {"error_type", "original_message", "simple_explanation", "fix_suggestion",
   "line_number", "file_name", "tags", "emoji", "success"}

\* the fields of ResultFields that result holds, with their values
LanguageFree(result) ==
  [f \in ResultFields \cap DOMAIN result.value |-> result.value[f]]

(* C25: a result of decode_traceback on a non-empty string, or of            *)
(* decode_exception on an exception object, holds translated_explanation     *)
(* exactly when the language current at the call is not "en", and its other  *)
(* fields are the same in every language.                                    *)
C25_OnlyTranslationDependsOnLanguage ==
  /\ Returned("decode_traceback") /\ arg.kind = "str" /\ arg.s # <<>> =>
       /\ "translated_explanation" \in DOMAIN outcome.value <=> current_language # "en"
       /\ ResultFields \subseteq DOMAIN outcome.value
       /\ \A lang \in SUPPORTED_LANGUAGES :
            LanguageFree(outcome) = LanguageFree(decode_traceback(arg, lang))
  /\ Returned("decode_exception") /\ arg.kind = "exception" =>
       /\ "translated_explanation" \in DOMAIN outcome.value <=> current_language # "en"
       /\ ResultFields \subseteq DOMAIN outcome.value
       /\ \A lang \in SUPPORTED_LANGUAGES :
            LanguageFree(outcome) = LanguageFree(decode_exception(arg, lang))

\* a text decoded under "hi" whose explanation the translation changes
C25_Witness ==
  /\ Returned("decode_traceback")
  /\ arg.kind = "str" /\ arg.s # <<>>
  /\ current_language = "hi"
  /\ "translated_explanation" \in DOMAIN outcome.value
  /\ outcome.value.translated_explanation # outcome.value.simple_explanation

\* an exception object decoded under "hi"
C25_WitnessException ==
  /\ Returned("decode_exception")
  /\ arg.kind = "exception"
  /\ current_language = "hi"
  /\ "translated_explanation" \in DOMAIN outcome.value

\* the lines of text
Lines(text) == split(text, NL)

(* C26: the text clean_traceback_text returns holds no ANSI escape sequence, *)
(* no carriage return, no two consecutive blank lines and no leading or      *)
(* trailing whitespace, and cleaning it again changes nothing.               *)
C26_CleanIsNormalForm ==
  Returned("clean_traceback_text") =>
    /\ \A i \in DOMAIN outcome.value : ansi_escape(outcome.value, i) = 0
    /\ \A i \in DOMAIN outcome.value : outcome.value[i] # CR
    /\ \A i \in 1..(Len(Lines(outcome.value)) - 1) :
         ~(strip(Lines(outcome.value)[i]) = <<>> /\ strip(Lines(outcome.value)[i + 1]) = <<>>)
    /\ strip(outcome.value) = outcome.value
    /\ clean_traceback_text(outcome.value) = outcome.value

\* what the code given to safe_run prints before it finishes or raises
Printed(code) ==
  IF code.kind = "code" /\ code.compiles THEN code.prints ELSE <<>>

(* C27: safe_run leaves sys.stdout as it found it on every path, and the     *)
(* output field of its result holds exactly the text the code printed up to  *)
(* the point where it finished or raised.                                    *)
C27_StdoutRestoredOutputExact ==
  [][call' = "safe_run" =>
       /\ sys_stdout' = sys_stdout
       /\ (outcome'.status = "return" /\ (isinstance_str(arg') \/ arg'.kind = "code")) =>
            /\ "output" \in DOMAIN outcome'.value
            /\ outcome'.value.output = Printed(arg')]_vars

\* code that printed a line and then raised
C27_Witness ==
  /\ Returned("safe_run")
  /\ arg.kind = "code"
  /\ arg.raises # None
  /\ arg.prints # <<>>
  /\ outcome.value.output = arg.prints
  /\ ~outcome.value.success
  /\ sys_stdout = "original"

(* C28: in every record extract_error_info returns, file_name and            *)
(* line_number are None exactly when frames is empty, and otherwise are the  *)
(* file and the line of the last element of frames.                          *)
C28_PointFieldsAgreeWithFrames ==
  Returned("extract_error_info") =>
    /\ outcome.value.frames = <<>> <=>
         outcome.value.file_name = None /\ outcome.value.line_number = None
    /\ outcome.value.frames # <<>> =>
         /\ outcome.value.file_name =
              Some(outcome.value.frames[Len(outcome.value.frames)].file)
         /\ outcome.value.line_number =
              Some(outcome.value.frames[Len(outcome.value.frames)].line)

(* C29: for every non-empty string, white space only and a summary line that *)
(* begins with a colon included, the error_type decode_traceback returns is  *)
(* a non-empty string.                                                       *)
C29_ErrorTypeNonEmpty ==
  Returned("decode_traceback") /\ arg.kind = "str" /\ arg.s # <<>> =>
    outcome.value.error_type # <<>>

\* result holds a token of type type
HasToken(result, type) ==
  \E i \in DOMAIN result.tokens : result.tokens[i].type = type

\* the formatted output of result holds an entry that begins with label
HasEntry(result, label) ==
  \E i \in DOMAIN result.formatted_output : result.formatted_output[i] = label

(* C30: tokenize_output emits the emoji token first, the error_type token    *)
(* second and the branding token last; it emits a line_number token, and     *)
(* format_output a Line entry under Where, exactly when line_number is not   *)
(* None (0 included), and a file_name token exactly when file_name is set.   *)
C30_LocationTokensWhenSet ==
  /\ call \in {"decode_traceback", "decode_exception", "safe_run"}
  /\ outcome.status = "return"
  /\ "tokens" \in DOMAIN outcome.value
  => /\ outcome.value.tokens[1].type = "emoji"
     /\ outcome.value.tokens[2].type = "error_type"
     /\ outcome.value.tokens[Len(outcome.value.tokens)].type = "branding"
     /\ HasToken(outcome.value, "line_number") <=> outcome.value.line_number # None
     /\ HasEntry(outcome.value, "   Line: ") <=> outcome.value.line_number # None
     /\ HasToken(outcome.value, "file_name") <=> outcome.value.file_name # None
     /\ HasEntry(outcome.value, "   File: ") <=> outcome.value.file_name # None

====
